---- MODULE Spec2Model ----
(***************************************************************************)
(* State and caching layer of cri-app: the Favorites Store                 *)
(* (MovieFavoritesService over BrowserApiService / localStorage) and the   *)
(* Cache & Fetch Coordinator (MovieStateService over MovieApiService).     *)
(***************************************************************************)
EXTENDS Integers, Sequences, FiniteSets, TLC

VARIABLES
    localStorage,    \* the browser's localStorage: key -> stored text
    favoritesState,  \* MovieFavoritesService.favoritesState$.value
    loadPromise,     \* the unresolved promise of the startup getLocalStorageItem
    favLast,         \* the last Favorites Store operation and what its caller saw
    toggledIds,      \* ids toggled on the current service instance
    ioFailed,        \* a persistence read or write of this instance has failed
    persistedAdd,    \* the id whose add was the last write, and whether a fresh instance followed
    setObjects,      \* the Set objects of the Favorites Store that are still referenced, and the last step's writes
    movieState,      \* MovieStateService.state$.value: cache (Map, insertion ordered), loading, error
    now,             \* Date.now(), in milliseconds since the service was created
    requests,        \* the getMovies fetches in flight, oldest first, each with what its closure holds
    calls,           \* how many coordinator calls have been made
    fetchHistory,    \* per key: when the Movie Source was last invoked for it, and by a call since answered
    coordLast,       \* the last coordinator step and what its caller saw
    lookups,         \* the getMovieById and searchMovies fetches in flight, each with what its closure holds
    lookupCalls,     \* how many getMovieById and searchMovies calls have been made
    mapObjects,      \* the Map objects of the coordinator that are still referenced
    streams,         \* the facade streams that have a subscriber, in the order of subscription
    facadeLast,      \* the last facade step and the streams that received a collection in it
    posterSrc,       \* the last PosterSrcPipe.transform call: its arguments and the URL it returned
    card             \* the MovieCardComponent on screen: its movie and the favorite flag it shows

favVars == <<localStorage, favoritesState, loadPromise, favLast, toggledIds, ioFailed, persistedAdd,
             setObjects>>

lookupVars == <<lookups, lookupCalls>>

coordVars == <<movieState, now, requests, calls, fetchHistory, coordLast, lookupVars, mapObjects>>

facadeVars == <<streams, facadeLast>>

pipeVars == <<posterSrc>>

cardVars == <<card>>

vars == <<favVars, coordVars, facadeVars, pipeVars, cardVars>>

(***************************************************************************)
(* Bounds                                                                  *)
(***************************************************************************)
MaxMovieId == 2
MaxStored == 2
MaxCalls == 2
MaxLookups == 1
MaxSubs == 1

MovieIds == 1..MaxMovieId

NULL == "NULL"

(***************************************************************************)
(* JavaScript values: Number.prototype.toString, Set (insertion ordered),  *)
(* Array.from, JSON text as a sequence of tokens.                          *)
(***************************************************************************)
NumberToString(n) == ToString(n)

IdStrings == {NumberToString(i) : i \in MovieIds}

SetHas(set, x) == \E i \in 1..Len(set) : set[i] = x

SetAdd(set, x) == IF SetHas(set, x) THEN set ELSE Append(set, x)

SetDelete(set, x) == SelectSeq(set, LAMBDA e : e # x)

RECURSIVE NewSet(_)
NewSet(iterable) ==
    IF iterable = <<>> THEN <<>>
    ELSE LET front == SubSeq(iterable, 1, Len(iterable) - 1)
         IN  SetAdd(NewSet(front), iterable[Len(iterable)])

ArrayFrom(set) == set

Elements(seq) == {seq[i] : i \in 1..Len(seq)}

Quote(s) == "\"" \o s \o "\""

RECURSIVE JSONStringifyItems(_)
JSONStringifyItems(arr) ==
    IF arr = <<>> THEN <<>>
    ELSE IF Len(arr) = 1 THEN <<Quote(arr[1])>>
    ELSE <<Quote(arr[1]), ",">> \o JSONStringifyItems(Tail(arr))

JSONStringify(arr) == <<"[">> \o JSONStringifyItems(arr) \o <<"]">>

IsStringToken(tok) == \E s \in IdStrings : Quote(s) = tok

Unquote(tok) == CHOOSE s \in IdStrings : Quote(s) = tok

\* JSON.parse: [ok |-> FALSE] stands for the SyntaxError it throws; a parsed
\* value is null, an object (not iterable) or an array of strings.
JSONParse(text) ==
    IF text = <<"null">> THEN [ok |-> TRUE, kind |-> "null", arr |-> <<>>]
    ELSE IF text = <<"{", "}">> THEN [ok |-> TRUE, kind |-> "object", arr |-> <<>>]
    ELSE IF Len(text) >= 2 /\ text[1] = "[" /\ text[Len(text)] = "]"
    THEN LET inner == SubSeq(text, 2, Len(text) - 1)
             wellFormed ==
                 \/ inner = <<>>
                 \/ /\ Len(inner) % 2 = 1
                    /\ \A i \in 1..Len(inner) :
                          IF i % 2 = 1 THEN IsStringToken(inner[i]) ELSE inner[i] = ","
         IN  IF wellFormed
             THEN [ok |-> TRUE, kind |-> "array",
                   arr |-> [i \in 1..((Len(inner) + 1) \div 2) |-> Unquote(inner[2 * i - 1])]]
             ELSE [ok |-> FALSE, kind |-> "null", arr |-> <<>>]
    ELSE [ok |-> FALSE, kind |-> "null", arr |-> <<>>]

(***************************************************************************)
(* BrowserApiService                                                       *)
(***************************************************************************)
\* setItemThrows: localStorage.setItem throws (quota exceeded, storage disabled).
\* err = TRUE is the throwError observable, err = FALSE the resolved promise.
setLocalStorageItem(ls, key, value, setItemThrows) ==
    IF setItemThrows
    THEN [err |-> TRUE, ls |-> ls]
    ELSE [err |-> FALSE,
          ls |-> [k \in DOMAIN ls \cup {key} |-> IF k = key THEN JSONStringify(value) ELSE ls[k]]]

\* getItemThrows: localStorage.getItem throws (storage unavailable).
getLocalStorageItem(ls, key, getItemThrows) ==
    IF getItemThrows THEN [err |-> TRUE, kind |-> "null", arr |-> <<>>]
    ELSE IF key \notin DOMAIN ls THEN [err |-> FALSE, kind |-> "null", arr |-> <<>>]
    ELSE LET parsedItem == JSONParse(ls[key])
         IN  IF parsedItem.ok
             THEN [err |-> FALSE, kind |-> parsedItem.kind, arr |-> parsedItem.arr]
             ELSE [err |-> TRUE, kind |-> "null", arr |-> <<>>]

(***************************************************************************)
(* MovieFavoritesService                                                   *)
(***************************************************************************)
STORAGE_KEY == "movie-favorites"

initialFavoritesState == [favoriteIds |-> <<>>, loading |-> FALSE, error |-> NULL]

\* { ...currentState, ...partialState }
updateState(currentState, partialState) ==
    [f \in DOMAIN currentState |->
        IF f \in DOMAIN partialState THEN partialState[f] ELSE currentState[f]]

setLoading(state, loading) == updateState(state, [loading |-> loading])

setError(state, error) == updateState(state, [error |-> error])

isFavoriteSync(state, movieId) == SetHas(state.favoriteIds, NumberToString(movieId))

\* saveFavorites without the setError of its catchError.
saveFavoritesSilent(w, setItemThrows) ==
    [st |-> w.st,
     ls |-> setLocalStorageItem(w.ls, "movie-favorites", ArrayFrom(w.st.favoriteIds),
                                setItemThrows).ls,
     raised |-> FALSE]

\* saveFavorites that clears the error when the write succeeds.
saveFavoritesClearsError(w, setItemThrows) ==
    LET favoriteArray == ArrayFrom(w.st.favoriteIds)
        res == setLocalStorageItem(w.ls, STORAGE_KEY, favoriteArray, setItemThrows)
    IN  IF res.err
        THEN [st |-> setError(w.st, "Failed to save favorites"), ls |-> res.ls, raised |-> FALSE]
        ELSE [st |-> setError(w.st, NULL), ls |-> res.ls, raised |-> FALSE]

\* The service and the storage it writes: w = [st |-> FavoritesState, ls |-> localStorage,
\* raised |-> an error escaped to the caller].
saveFavorites(w, setItemThrows) ==
    LET favoriteArray == ArrayFrom(w.st.favoriteIds)
        res == setLocalStorageItem(w.ls, STORAGE_KEY, favoriteArray, setItemThrows)
    IN  IF res.err
        THEN \* catchError: the error is replaced by of(void 0)
             [st |-> setError(w.st, "Failed to save favorites"), ls |-> res.ls, raised |-> FALSE]
        ELSE [st |-> w.st, ls |-> res.ls, raised |-> FALSE]

addFavorite(w, movieId, setItemThrows) ==
    LET movieIdString == NumberToString(movieId)
    IN  IF ~SetHas(w.st.favoriteIds, movieIdString)
        THEN saveFavorites(
                 [w EXCEPT !.st = updateState(w.st,
                     [favoriteIds |-> SetAdd(w.st.favoriteIds, movieIdString)])],
                 setItemThrows)
        ELSE w

\* removeFavorite that writes the set without deleting the id.
removeFavoriteKeepsId(w, movieId, setItemThrows) == saveFavorites(w, setItemThrows)

removeFavorite(w, movieId, setItemThrows) ==
    LET movieIdString == NumberToString(movieId)
    IN  IF SetHas(w.st.favoriteIds, movieIdString)
        THEN saveFavorites(
                 [w EXCEPT !.st = updateState(w.st,
                     [favoriteIds |-> SetDelete(w.st.favoriteIds, movieIdString)])],
                 setItemThrows)
        ELSE w

toggleFavorite(w, movieId, setItemThrows) ==
    IF isFavoriteSync(w.st, movieId)
    THEN removeFavorite(w, movieId, setItemThrows)
    ELSE addFavorite(w, movieId, setItemThrows)

\* The catchError of loadFavorites without loading: false.
loadFavoritesErrorKeepsLoading(state) ==
    updateState(state, [error |-> "Failed to load favorites"])

\* The catchError of loadFavorites.
loadFavoritesError(state) ==
    updateState(state, [loading |-> FALSE, error |-> "Failed to load favorites"])

\* The tap of loadFavorites without the setLoading(false) of its else branch.
loadFavoritesNextKeepsLoading(state, favoriteArray) ==
    IF favoriteArray.kind = "array"
    THEN updateState(state,
             [favoriteIds |-> NewSet(favoriteArray.arr), loading |-> FALSE, error |-> NULL])
    ELSE IF favoriteArray.kind = "object"
    THEN loadFavoritesError(state)
    ELSE state

\* The tap of loadFavorites without the replacement of the set.
loadFavoritesNextKeepsSet(state, favoriteArray) ==
    IF favoriteArray.kind = "object" THEN loadFavoritesError(state)
    ELSE updateState(state, [loading |-> FALSE, error |-> NULL])

\* The tap of loadFavorites, run when the promise resolves with favoriteArray;
\* new Set(favoriteArray) throws on a value that is not iterable, and the
\* catchError below the tap takes the error.
loadFavoritesNext(state, favoriteArray) ==
    IF favoriteArray.kind = "array"
    THEN updateState(state,
             [favoriteIds |-> NewSet(favoriteArray.arr), loading |-> FALSE, error |-> NULL])
    ELSE IF favoriteArray.kind = "object"
    THEN loadFavoritesError(state)
    ELSE setLoading(state, FALSE)

\* loadFavorites up to the subscribe(): a throwError observable errors inside
\* subscribe(), a promise resolves later.
loadFavorites(state, ls, getItemThrows) ==
    LET loadingState == setLoading(state, TRUE)
        res == getLocalStorageItem(ls, STORAGE_KEY, getItemThrows)
    IN  IF res.err
        THEN [st |-> loadFavoritesError(loadingState), promise |-> <<>>, raised |-> FALSE]
        ELSE [st |-> loadingState,
              promise |-> <<[kind |-> res.kind, arr |-> res.arr]>>,
              raised |-> FALSE]

constructor(ls, getItemThrows) == loadFavorites(initialFavoritesState, ls, getItemThrows)

(***************************************************************************)
(* Object identity: the Set objects of the Favorites Store                 *)
(***************************************************************************)
\* The objects still referenced: objects[r] is the content of object r,
\* published the object the state in the BehaviorSubject holds, held the
\* object a reader has kept (0: none) and seen the content it had when the
\* reader received it; writes are the arrays given to setLocalStorageItem.
initialSetObjects ==
    [objects |-> << <<>> >>, published |-> 1, held |-> 0, seen |-> <<>>, writes |-> <<>>]

\* An object nothing refers to is gone; the others are numbered by age.
Collect(o) ==
    LET live == {o.published} \cup ({o.held} \ {0})
        rank(r) == Cardinality({x \in live : x <= r})
    IN  [o EXCEPT !.objects = [i \in 1..Cardinality(live) |->
                                  o.objects[CHOOSE r \in live : rank(r) = i]],
                  !.published = rank(o.published),
                  !.held = IF o.held = 0 THEN 0 ELSE rank(o.held)]

\* addFavorite that adds the id to the published Set itself.
addFavoriteObjectsInPlace(o, movieId) ==
    LET movieIdString == NumberToString(movieId)
        added == [o.objects EXCEPT ![o.published] = SetAdd(@, movieIdString)]
    IN  IF ~SetHas(o.objects[o.published], movieIdString)
        THEN [o EXCEPT !.objects = added,
                       !.writes = Append(@, ArrayFrom(added[o.published]))]
        ELSE o

\* addFavorite on objects: new Set(currentState.favoriteIds), newSet.add,
\* updateState({favoriteIds: newSet}), saveFavorites().
addFavoriteObjects(o, movieId) ==
    LET movieIdString == NumberToString(movieId)
        newSet == Len(o.objects) + 1
        made == Append(o.objects, NewSet(o.objects[o.published]))
        added == [made EXCEPT ![newSet] = SetAdd(@, movieIdString)]
    IN  IF ~SetHas(o.objects[o.published], movieIdString)
        THEN [o EXCEPT !.objects = added, !.published = newSet,
                       !.writes = Append(@, ArrayFrom(added[newSet]))]
        ELSE o

\* removeFavorite on objects: new Set(currentState.favoriteIds),
\* newSet.delete, updateState({favoriteIds: newSet}), saveFavorites().
removeFavoriteObjects(o, movieId) ==
    LET movieIdString == NumberToString(movieId)
        newSet == Len(o.objects) + 1
        made == Append(o.objects, NewSet(o.objects[o.published]))
        deleted == [made EXCEPT ![newSet] = SetDelete(@, movieIdString)]
    IN  IF SetHas(o.objects[o.published], movieIdString)
        THEN [o EXCEPT !.objects = deleted, !.published = newSet,
                       !.writes = Append(@, ArrayFrom(deleted[newSet]))]
        ELSE o

toggleFavoriteObjects(o, movieId) ==
    IF SetHas(o.objects[o.published], NumberToString(movieId))
    THEN removeFavoriteObjects(o, movieId)
    ELSE addFavoriteObjects(o, movieId)

\* The tap of loadFavorites on objects: new Set(favoriteArray) for an array
\* (for a value that is not iterable it throws), no object otherwise.
loadFavoritesNextObjects(o, favoriteArray) ==
    IF favoriteArray.kind = "array"
    THEN [o EXCEPT !.objects = Append(@, NewSet(favoriteArray.arr)),
                   !.published = Len(o.objects) + 1]
    ELSE o

(***************************************************************************)
(* Favorites Store: initial states and steps                               *)
(***************************************************************************)
RECURSIVE SeqsUpTo(_, _)
SeqsUpTo(S, n) ==
    IF n = 0 THEN {<<>>}
    ELSE LET shorter == SeqsUpTo(S, n - 1)
         IN  shorter \cup {Append(s, x) : s \in shorter, x \in S}

\* What the favorites key may hold when the application starts: nothing, a
\* list written by an earlier run, the JSON null, or text that does not parse.
StoredTexts ==
    {JSONStringify(arr) : arr \in SeqsUpTo(IdStrings, MaxStored)}
        \cup {<<"null">>, <<"{", "}">>, <<"[", Quote(NumberToString(1))>>}

InitialStorages == {<<>>} \cup {[k \in {STORAGE_KEY} |-> text] : text \in StoredTexts}

NoAdd == [id |-> 0, carried |-> FALSE]

\* What the caller of the last operation saw: the operation, its id, whether
\* its storage access failed, whether an error escaped to the caller, the
\* favorite set before it, and (again) whether it repeats the toggle before it,
\* with the favorite set before that one (before2).
Observed(op, id, failed, raised, before, again, before2) ==
    [op |-> op, id |-> id, failed |-> failed, raised |-> raised,
     before |-> before, again |-> again, before2 |-> before2]

FavInit ==
    /\ localStorage \in InitialStorages
    /\ \E getItemThrows \in BOOLEAN :
          LET c == constructor(localStorage, getItemThrows)
          IN  /\ favoritesState = c.st
              /\ loadPromise = c.promise
              /\ ioFailed = (c.promise = <<>>)
              /\ favLast = Observed("constructor", 0, c.promise = <<>>, c.raised,
                                    <<>>, FALSE, <<>>)
    /\ toggledIds = {}
    /\ persistedAdd = NoAdd
    /\ setObjects = initialSetObjects

\* A page load: a fresh MovieFavoritesService over the storage as it is.
Reload ==
    /\ \E getItemThrows \in BOOLEAN :
          LET c == constructor(localStorage, getItemThrows)
          IN  /\ favoritesState' = c.st
              /\ loadPromise' = c.promise
              /\ ioFailed' = (c.promise = <<>>)
              /\ favLast' = Observed("constructor", 0, c.promise = <<>>, c.raised,
                                     <<>>, FALSE, <<>>)
    /\ toggledIds' = {}
    /\ persistedAdd' = IF persistedAdd.id # 0 THEN [persistedAdd EXCEPT !.carried = TRUE]
                       ELSE persistedAdd
    /\ setObjects' = initialSetObjects
    /\ UNCHANGED <<localStorage, coordVars, facadeVars, pipeVars, cardVars>>

\* The startup promise resolves: the tap of loadFavorites runs.
LoadResolveStep ==
    /\ loadPromise # <<>>
    /\ favoritesState' = loadFavoritesNext(favoritesState, loadPromise[1])
    /\ loadPromise' = <<>>
    /\ ioFailed' = (ioFailed \/ loadPromise[1].kind = "object")
    /\ favLast' = Observed("loadResolve", 0, loadPromise[1].kind = "object", FALSE,
                           favoritesState.favoriteIds, FALSE, <<>>)
    /\ setObjects' = Collect(loadFavoritesNextObjects([setObjects EXCEPT !.writes = <<>>],
                                                      loadPromise[1]))
    /\ UNCHANGED <<localStorage, toggledIds, persistedAdd>>

LoadResolve == LoadResolveStep /\ UNCHANGED <<coordVars, facadeVars, pipeVars, cardVars>>

ToggleFavoriteStep(movieId, setItemThrows) ==
    LET w == toggleFavorite([st |-> favoritesState, ls |-> localStorage, raised |-> FALSE],
                            movieId, setItemThrows)
        added == ~isFavoriteSync(favoritesState, movieId)
        again == favLast.op = "toggleFavorite" /\ favLast.id = movieId
    IN  /\ favoritesState' = w.st
        /\ localStorage' = w.ls
        /\ favLast' = Observed("toggleFavorite", movieId, setItemThrows, w.raised,
                               favoritesState.favoriteIds, again,
                               IF again THEN favLast.before ELSE <<>>)
        /\ toggledIds' = toggledIds \cup {movieId}
        /\ ioFailed' = (ioFailed \/ setItemThrows)
        /\ persistedAdd' = IF added /\ ~setItemThrows
                           THEN [id |-> movieId, carried |-> FALSE]
                           ELSE NoAdd
        /\ setObjects' = Collect(toggleFavoriteObjects([setObjects EXCEPT !.writes = <<>>],
                                                       movieId))
        /\ UNCHANGED loadPromise

ToggleFavorite(movieId, setItemThrows) ==
    ToggleFavoriteStep(movieId, setItemThrows) /\ UNCHANGED <<coordVars, facadeVars, pipeVars, cardVars>>

\* A reader of favoriteIds$ keeps the Set it is given.
HoldFavoriteIds ==
    /\ setObjects.held # setObjects.published
    /\ setObjects' = Collect([setObjects EXCEPT !.held = setObjects.published,
                                                !.seen = setObjects.objects[setObjects.published]])
    /\ UNCHANGED <<localStorage, favoritesState, loadPromise, favLast, toggledIds, ioFailed,
                   persistedAdd, coordVars, facadeVars, pipeVars, cardVars>>

FavNext ==
    \/ Reload
    \/ LoadResolve
    \/ \E movieId \in MovieIds, setItemThrows \in BOOLEAN : ToggleFavorite(movieId, setItemThrows)

(***************************************************************************)
(* Favorites Store: properties                                             *)
(***************************************************************************)
\* The id list stored under the favorites key, as a set (nothing stored, or
\* the JSON null: no ids).
PersistedIds ==
    IF STORAGE_KEY \in DOMAIN localStorage
    THEN Elements(JSONParse(localStorage[STORAGE_KEY]).arr)
    ELSE {}

\* C5: toggleFavorite(id) followed by isFavoriteSync(id) gives the negation of
\* the value before the toggle, and a second toggleFavorite(id) right after the
\* first leaves the favorite set with the content it had before the first.
C5_ToggleFlipsAndUndoes ==
    favLast.op = "toggleFavorite" =>
        /\ isFavoriteSync(favoritesState, favLast.id)
              = ~SetHas(favLast.before, NumberToString(favLast.id))
        /\ favLast.again =>
              Elements(favoritesState.favoriteIds) = Elements(favLast.before2)

C5_Witness ==
    /\ favLast.op = "toggleFavorite"
    /\ favLast.again
    /\ Len(favoritesState.favoriteIds) = 1
    /\ ~isFavoriteSync(favoritesState, favLast.id)

\* C6 (as stated): once toggleFavorite(id) has added id and written it, a fresh
\* instance over the same storage reports isFavoriteSync(id) = TRUE, also
\* right after its construction.
C6_FreshInstanceReportsAtOnce ==
    persistedAdd.carried => isFavoriteSync(favoritesState, persistedAdd.id)

\* C6 (amended): once toggleFavorite(id) has added id and written it, a fresh
\* instance over the same storage reports isFavoriteSync(id) = TRUE after its
\* startup load has resolved without a read failure.
C6_FreshInstanceReportsAfterLoad ==
    (persistedAdd.carried /\ loadPromise = <<>> /\ ~ioFailed) =>
        isFavoriteSync(favoritesState, persistedAdd.id)

C6_Witness ==
    /\ persistedAdd.carried
    /\ loadPromise = <<>>
    /\ ~ioFailed
    /\ favLast.op = "loadResolve"
    /\ isFavoriteSync(favoritesState, persistedAdd.id)

\* C7: whenever the startup load has resolved and no persistence read or write
\* has failed, the stored id list equals the in-memory favorite set.
C7_StorageMirrorsMemory ==
    (loadPromise = <<>> /\ ~ioFailed) =>
        PersistedIds = Elements(favoritesState.favoriteIds)

\* C8: after toggleFavorite(id) on an instance, the membership of id in its
\* in-memory set changes only in a step that is toggleFavorite(id).
C8_OnlyTogglesChangeMembership ==
    [][\A id \in toggledIds \cap toggledIds' :
          (isFavoriteSync(favoritesState', id) # isFavoriteSync(favoritesState, id))
              => (favLast'.op = "toggleFavorite" /\ favLast'.id = id)]_vars

\* C9: a toggleFavorite(id) whose persistence write fails keeps the toggled
\* membership of id in memory, sets error to 'Failed to save favorites' and
\* raises nothing to its caller.
C9_FailedWriteKeepsToggle ==
    (favLast.op = "toggleFavorite" /\ favLast.failed) =>
        /\ isFavoriteSync(favoritesState, favLast.id)
              = ~SetHas(favLast.before, NumberToString(favLast.id))
        /\ favoritesState.error = "Failed to save favorites"
        /\ ~favLast.raised

C9_Witness ==
    /\ favLast.op = "toggleFavorite"
    /\ favLast.failed
    /\ isFavoriteSync(favoritesState, favLast.id)
    /\ favLast.id \notin {i \in MovieIds : NumberToString(i) \in PersistedIds}

C25_ReadEmitsNullOrParsedValue ==
    favLast.op = "constructor"
    => LET res == getLocalStorageItem(localStorage, STORAGE_KEY, FALSE)
       IN  /\ ~res.err
           /\ STORAGE_KEY \notin DOMAIN localStorage => res.kind = "null"
           /\ STORAGE_KEY \in DOMAIN localStorage
                 => LET parsedItem == JSONParse(localStorage[STORAGE_KEY])
                    IN  IF parsedItem.ok
                        THEN res.kind = parsedItem.kind /\ res.arr = parsedItem.arr
                        ELSE res.kind = "null"

\* C35: as long as no persistence read or write has failed, an id leaves the
\* stored id list only in a step that is the toggleFavorite of that id; this
\* holds in particular for the ids stored when the instance was constructed
\* and for toggles made before the startup load has resolved.
C35_StoredIdsLeaveOnlyByTheirOwnToggle ==
    [][~ioFailed' =>
          \A id \in PersistedIds :
              (STORAGE_KEY \notin DOMAIN localStorage'
                  \/ id \notin Elements(JSONParse(localStorage'[STORAGE_KEY]).arr))
              => (favLast'.op = "toggleFavorite" /\ NumberToString(favLast'.id) = id)]_vars

\* C37 (as stated): once error is 'Failed to save favorites', it stays so in
\* every later step of the instance (a fresh instance starts a new run).
C37_SaveErrorStaysForTheRun ==
    [][(favoritesState.error = "Failed to save favorites" /\ favLast'.op # "constructor")
          => favoritesState'.error = "Failed to save favorites"]_vars

\* C37 (amended): once error is 'Failed to save favorites', no toggleFavorite
\* changes it, whether its write succeeds or fails; on one instance it changes
\* only when the startup load, still pending at the failed write, resolves
\* with a stored value: to null for a list, to the load's message for a value
\* that is not iterable.
C37_SaveErrorOutlivesToggles ==
    [][favoritesState.error = "Failed to save favorites" =>
          /\ favLast'.op = "toggleFavorite"
                => favoritesState'.error = "Failed to save favorites"
          /\ (favoritesState'.error # favoritesState.error /\ favLast'.op # "constructor")
                => /\ favLast'.op = "loadResolve"
                   /\ loadPromise # <<>>
                   /\ loadPromise[1].kind \in {"array", "object"}
                   /\ favoritesState'.error =
                         (IF loadPromise[1].kind = "array" THEN NULL
                          ELSE "Failed to load favorites")]_vars

C37_Witness ==
    /\ favLast.op = "toggleFavorite"
    /\ ~favLast.failed
    /\ favLast.again
    /\ favoritesState.error = "Failed to save favorites"
    /\ loadPromise = <<>>
    /\ PersistedIds = Elements(favoritesState.favoriteIds)

\* C32: a toggleFavorite publishes a Set object that no reader holds yet
\* (the Set a reader holds keeps its content), with the content of the state
\* after the toggle, and gives setLocalStorageItem one array, the ids of that
\* Set; the stored text is that array when the write succeeds and is left
\* alone when it fails.
C32_ToggleInstallsNewSetAndWritesOnce ==
    [][(favLast'.op = "toggleFavorite"
            /\ favoritesState'.favoriteIds # favoritesState.favoriteIds)
        => /\ setObjects'.objects[setObjects'.published] = favoritesState'.favoriteIds
           /\ (setObjects.held # 0
                  => /\ setObjects'.held # 0
                     /\ setObjects'.held # setObjects'.published
                     /\ setObjects'.objects[setObjects'.held]
                            = setObjects.objects[setObjects.held])
           /\ setObjects'.writes = << ArrayFrom(favoritesState'.favoriteIds) >>
           /\ (~favLast'.failed
                  => localStorage'[STORAGE_KEY]
                         = JSONStringify(ArrayFrom(favoritesState'.favoriteIds)))
           /\ (favLast'.failed => localStorage' = localStorage)]_vars

C32_Witness ==
    /\ favLast.op = "toggleFavorite"
    /\ setObjects.held # 0
    /\ setObjects.held # setObjects.published
    /\ setObjects.seen = favLast.before
    /\ setObjects.objects[setObjects.held] = favLast.before
    /\ Len(setObjects.objects[setObjects.published]) = 2
    /\ Len(setObjects.writes) = 1
    /\ ~favLast.failed

(***************************************************************************)
(* Movie Source: MovieApiService over the stub data                        *)
(***************************************************************************)
Movie(id, title, original_title, overview, genres, vote_average, release_date) ==
    [id |-> id, title |-> title, original_title |-> original_title, overview |-> overview,
     genres |-> genres, vote_average |-> vote_average, release_date |-> release_date]

\* new Date(release_date).getTime(), as the day count the ISO date orders by.
DateGetTime(release_date) ==
    CASE release_date = "1994-09-10" -> 19940910
      [] release_date = "1999-01-01" -> 19990101
      [] release_date = "2001-03-05" -> 20010305

\* The movie list the source holds when it answers (ratings in tenths): the
\* same three movies, rated differently from one answer to another.
Catalogs ==
    { << Movie(1, "Heat", "Heat", "a cop", <<"Crime">>, 85, "1994-09-10"),
         Movie(2, "Ran", "Luan", "a king", <<"War">>, 87, "1999-01-01"),
         Movie(3, "Up", "Up", "old man", <<"Fun">>, 79, "2001-03-05") >>,
      << Movie(1, "Heat", "Heat", "a cop", <<"Crime">>, 85, "1994-09-10"),
         Movie(2, "Ran", "Luan", "a king", <<"War">>, 82, "1999-01-01"),
         Movie(3, "Up", "Up", "old man", <<"Fun">>, 90, "2001-03-05") >> }

\* Array.prototype.sort with a numeric comparator (stable): keyed[i] = [k, v],
\* ascending by k, equal keys keep their order.
SortByKey(keyed) ==
    LET before(i) == Cardinality({j \in 1..Len(keyed) :
                         \/ keyed[j].k < keyed[i].k
                         \/ keyed[j].k = keyed[i].k /\ j < i})
    IN  [p \in 1..Len(keyed) |-> keyed[CHOOSE i \in 1..Len(keyed) : before(i) = p - 1]]

Values(keyed) == [i \in 1..Len(keyed) |-> keyed[i].v]

Slice(arr, from, to) == SubSeq(arr, from + 1, IF to < Len(arr) THEN to ELSE Len(arr))

getTopRatedMovies(movieList, limit) ==
    Slice(Values(SortByKey([i \in 1..Len(movieList) |->
              [k |-> 0 - movieList[i].vote_average, v |-> movieList[i]]])),
          0, limit)

getTopRatedMoviesChronological(movieList, limit) ==
    LET top == getTopRatedMovies(movieList, limit)
    IN  Values(SortByKey([i \in 1..Len(top) |->
                  [k |-> DateGetTime(top[i].release_date), v |-> top[i]]]))

\* A JavaScript string as the sequence of its characters, for the texts the
\* movies and the queries hold.
Chars(str) ==
    CASE str = "" -> <<>>
      [] str = " " -> <<" ">>
      [] str = "a" -> <<"a">>
      [] str = "RAN" -> <<"R", "A", "N">>
      [] str = "Heat" -> <<"H", "e", "a", "t">>
      [] str = "Ran" -> <<"R", "a", "n">>
      [] str = "Luan" -> <<"L", "u", "a", "n">>
      [] str = "Up" -> <<"U", "p">>
      [] str = "a cop" -> <<"a", " ", "c", "o", "p">>
      [] str = "a king" -> <<"a", " ", "k", "i", "n", "g">>
      [] str = "old man" -> <<"o", "l", "d", " ", "m", "a", "n">>
      [] str = "1994-09-10" -> <<"1", "9", "9", "4", "-", "0", "9", "-", "1", "0">>
      [] str = "1999-01-01" -> <<"1", "9", "9", "9", "-", "0", "1", "-", "0", "1">>
      [] str = "2001-03-05" -> <<"2", "0", "0", "1", "-", "0", "3", "-", "0", "5">>
      [] str = "Crime" -> <<"C", "r", "i", "m", "e">>
      [] str = "War" -> <<"W", "a", "r">>
      [] str = "Fun" -> <<"F", "u", "n">>

UpperCaseLetters ==
    <<"A", "B", "C", "D", "E", "F", "G", "H", "I", "J", "K", "L", "M",
      "N", "O", "P", "Q", "R", "S", "T", "U", "V", "W", "X", "Y", "Z">>

LowerCaseLetters ==
    <<"a", "b", "c", "d", "e", "f", "g", "h", "i", "j", "k", "l", "m",
      "n", "o", "p", "q", "r", "s", "t", "u", "v", "w", "x", "y", "z">>

\* The lower-case letter of each upper-case letter.
LowerCaseOf ==
    [c \in {UpperCaseLetters[j] : j \in 1..26} |->
        LowerCaseLetters[CHOOSE j \in 1..26 : UpperCaseLetters[j] = c]]

\* String.prototype.toLowerCase
ToLowerCase(chars) ==
    [i \in 1..Len(chars) |->
        IF chars[i] \in DOMAIN LowerCaseOf THEN LowerCaseOf[chars[i]] ELSE chars[i]]

WhiteSpace == {" "}

\* A trim that removes nothing.
TrimNothing(chars) == chars

\* String.prototype.trim
RECURSIVE Trim(_)
Trim(chars) ==
    IF chars = <<>> THEN <<>>
    ELSE IF chars[1] \in WhiteSpace THEN Trim(Tail(chars))
    ELSE IF chars[Len(chars)] \in WhiteSpace THEN Trim(SubSeq(chars, 1, Len(chars) - 1))
    ELSE chars

\* String.prototype.includes
Includes(chars, search) ==
    \E i \in 0..(Len(chars) - Len(search)) : SubSeq(chars, i + 1, i + Len(search)) = search

\* arr.find(m => m.id === id): <<>> is undefined, <<x>> the first element that passes.
FindById(arr, id) ==
    LET passing == SelectSeq(arr, LAMBDA m : m.id = id)
    IN  IF passing = <<>> THEN <<>> ELSE <<passing[1]>>

getMovieDetails(id, movieList) == FindById(movieList, id)

\* MovieApiService.searchMovies
MovieApiService_searchMovies(query, limit, movieList) ==
    IF Trim(Chars(query)) = <<>> THEN <<>>
    ELSE LET lowerQuery == ToLowerCase(Chars(query))
         IN  Slice(SelectSeq(movieList, LAMBDA movie :
                       \/ Includes(ToLowerCase(Chars(movie.title)), lowerQuery)
                       \/ Includes(ToLowerCase(Chars(movie.original_title)), lowerQuery)
                       \/ Includes(ToLowerCase(Chars(movie.overview)), lowerQuery)
                       \/ \E g \in 1..Len(movie.genres) :
                              Includes(ToLowerCase(Chars(movie.genres[g])), lowerQuery)),
                   0, limit)

(***************************************************************************)
(* MovieStateService                                                       *)
(***************************************************************************)
CACHE_DURATION == 5 * 60 * 1000

\* The query shapes the callers use: the three kinds with one limit, and the
\* first kind with a second limit.
QueryShapes ==
    {<<"top-rated", 2>>, <<"top-rated", 20>>, <<"chronological", 2>>, <<"all", 2>>}

initialState == [cache |-> <<>>, loading |-> FALSE, error |-> NULL]

CacheKey(type, limit) == type \o "-" \o NumberToString(limit)

\* Map.get: <<>> is undefined, <<entry>> the entry held for the key.
getCachedMovies(state, cacheKey) == SelectSeq(state.cache, LAMBDA e : e.key = cacheKey)

\* isCacheValid with the comparison turned around.
isCacheValidInverted(cache, dateNow) == dateNow - cache.lastUpdated > CACHE_DURATION

\* isCacheValid that still accepts an entry aged exactly CACHE_DURATION.
isCacheValidInclusive(cache, dateNow) == dateNow - cache.lastUpdated <= CACHE_DURATION

isCacheValid(cache, dateNow) == dateNow - cache.lastUpdated < CACHE_DURATION

\* getApiCall that sends every kind to getTopRatedMovies.
getApiCallAlwaysTopRated(type, limit, movieList) == getTopRatedMovies(movieList, limit)

getApiCall(type, limit, movieList) ==
    CASE type = "top-rated" -> getTopRatedMovies(movieList, limit)
      [] type = "chronological" -> getTopRatedMoviesChronological(movieList, limit)
      [] type = "all" -> getTopRatedMovies(movieList, limit)
      [] OTHER -> getTopRatedMovies(movieList, limit)

\* A map in which the first entry written for a key stays.
MapSetKeepsFirst(cache, entry) ==
    IF \E i \in 1..Len(cache) : cache[i].key = entry.key THEN cache ELSE Append(cache, entry)

\* A map that keeps nothing but the entry written last.
MapSetAlone(cache, entry) == <<entry>>

\* new Map(cache).set(cacheKey, entry): a key already present keeps its place.
MapSet(cache, entry) ==
    IF \E i \in 1..Len(cache) : cache[i].key = entry.key
    THEN [i \in 1..Len(cache) |-> IF cache[i].key = entry.key THEN entry ELSE cache[i]]
    ELSE Append(cache, entry)

\* updateMovieCache that publishes the old map.
updateMovieCacheKeepsOld(state, cacheKey, movies, type, dateNow) ==
    updateState(state, [cache |-> state.cache])

\* updateMovieCache that adds the movies to those the key already holds.
updateMovieCacheMerges(state, cacheKey, movies, type, dateNow) ==
    LET old == getCachedMovies(state, cacheKey)
    IN  updateState(state, [cache |-> MapSet(state.cache,
            [key |-> cacheKey,
             movies |-> (IF old = <<>> THEN <<>> ELSE old[1].movies) \o movies,
             lastUpdated |-> dateNow, type |-> type])])

updateMovieCache(state, cacheKey, movies, type, dateNow) ==
    updateState(state, [cache |-> MapSet(state.cache,
        [key |-> cacheKey, movies |-> movies, lastUpdated |-> dateNow, type |-> type])])

\* clearCache that publishes the initial state.
clearCacheResets(state) == initialState

clearCache(state) == updateState(state, [cache |-> <<>>])

\* The Map objects still referenced, as the Set objects of the Favorites Store.
initialMapObjects == [objects |-> << <<>> >>, published |-> 1, held |-> 0, seen |-> <<>>]

\* updateMovieCache that sets the key in the published Map itself.
updateMovieCacheObjectsInPlace(o, cacheKey, movies, type, dateNow) ==
    [o EXCEPT !.objects[o.published] = MapSet(@,
        [key |-> cacheKey, movies |-> movies, lastUpdated |-> dateNow, type |-> type])]

\* updateMovieCache on objects: new Map(currentState.cache), newCache.set,
\* updateState({cache: newCache}).
updateMovieCacheObjects(o, cacheKey, movies, type, dateNow) ==
    LET newCache == Len(o.objects) + 1
        made == Append(o.objects, o.objects[o.published])
    IN  [o EXCEPT !.objects = [made EXCEPT ![newCache] = MapSet(@,
                      [key |-> cacheKey, movies |-> movies, lastUpdated |-> dateNow,
                       type |-> type])],
                  !.published = newCache]

\* clearCache on objects: updateState({cache: new Map()}).
clearCacheObjects(o) ==
    [o EXCEPT !.objects = Append(@, <<>>), !.published = Len(o.objects) + 1]

\* getMovies up to its return: either of(cachedData.movies), or the fetch it
\* starts (the Movie Source is invoked by getApiCall) with the closure's cachedData.
getMovies(state, type, limit, dateNow) ==
    LET cacheKey == CacheKey(type, limit)
        cachedData == getCachedMovies(state, cacheKey)
    IN  IF cachedData # <<>> /\ isCacheValid(cachedData[1], dateNow)
        THEN [st |-> state, fetch |-> FALSE, emits |-> TRUE, movies |-> cachedData[1].movies,
              cacheKey |-> cacheKey, cachedData |-> cachedData]
        ELSE [st |-> setLoading(state, TRUE), fetch |-> TRUE, emits |-> FALSE, movies |-> <<>>,
              cacheKey |-> cacheKey, cachedData |-> cachedData]

\* A tap of getMovies that caches the movies with a favorite flag.
getMoviesNextCachesEnriched(state, req, movies, dateNow) ==
    [st |-> setError(setLoading(updateMovieCache(state, req.cacheKey,
                                    [i \in 1..Len(movies) |->
                                        [f \in DOMAIN movies[i] \cup {"isFavorite"} |->
                                            IF f = "isFavorite" THEN FALSE ELSE movies[i][f]]],
                                    req.type, dateNow),
                                FALSE), NULL),
     movies |-> movies, raised |-> FALSE]

\* The tap of getMovies: the source answered with movies.
getMoviesNext(state, req, movies, dateNow) ==
    [st |-> setError(setLoading(updateMovieCache(state, req.cacheKey, movies, req.type, dateNow),
                                FALSE), NULL),
     movies |-> movies, raised |-> FALSE]

\* The catchError of getMovies that always falls back to of([]).
getMoviesErrorEmpty(state, req) ==
    [st |-> setError(setLoading(state, FALSE), "Failed to fetch movies"),
     movies |-> <<>>, raised |-> FALSE]

\* The catchError of getMovies: the source failed.
getMoviesError(state, req) ==
    [st |-> setError(setLoading(state, FALSE), "Failed to fetch movies"),
     movies |-> IF req.cachedData # <<>> THEN req.cachedData[1].movies ELSE <<>>,
     raised |-> FALSE]

\* The movies of all cache entries, in the order of cache.values().
RECURSIVE allCachedMovies(_)
allCachedMovies(cache) ==
    IF cache = <<>> THEN <<>>
    ELSE allCachedMovies(SubSeq(cache, 1, Len(cache) - 1)) \o cache[Len(cache)].movies

\* Array.prototype.findIndex for the id of a movie known to be in the array.
FindIndexById(arr, id) == CHOOSE i \in 1..Len(arr) :
    arr[i].id = id /\ \A j \in 1..(i - 1) : arr[j].id # id

\* The filter that removes no duplicate.
uniqueCachedMoviesKeepsAll(all) == all

\* filter((movie, index, self) => self.findIndex(m => m.id === movie.id) === index)
uniqueCachedMovies(all) ==
    LET kept == {i \in 1..Len(all) : FindIndexById(all, all[i].id) = i}
        F[i \in 0..Len(all)] ==
            IF i = 0 THEN <<>>
            ELSE IF i \in kept THEN Append(F[i - 1], all[i]) ELSE F[i - 1]
    IN  F[Len(all)]

\* The cache-derived matches of searchMovies.
cachedResults(state, query) ==
    LET lowerQuery == ToLowerCase(Chars(query))
    IN  SelectSeq(uniqueCachedMovies(allCachedMovies(state.cache)), LAMBDA movie :
            \/ Includes(ToLowerCase(Chars(movie.title)), lowerQuery)
            \/ Includes(ToLowerCase(Chars(movie.original_title)), lowerQuery)
            \/ Includes(ToLowerCase(Chars(movie.overview)), lowerQuery))

\* getMovieById without the scan of the cache.
getMovieByIdNoCache(state, id) ==
    [st |-> setLoading(state, TRUE), fetch |-> TRUE, emits |-> FALSE, movie |-> <<>>]

\* getMovieById up to its return: of(movie) for the first cached movie with
\* the id, or the fetch it starts.
getMovieById(state, id) ==
    LET found == FindById(allCachedMovies(state.cache), id)
    IN  IF found # <<>>
        THEN [st |-> state, fetch |-> FALSE, emits |-> TRUE, movie |-> found]
        ELSE [st |-> setLoading(state, TRUE), fetch |-> TRUE, emits |-> FALSE, movie |-> <<>>]

\* The tap of getMovieById with an absent movie reported as an error.
getMovieByIdNextNotFoundIsError(state, movie) ==
    [st |-> setError(setLoading(state, FALSE),
                     IF movie = <<>> THEN "Failed to fetch movie details" ELSE NULL),
     movie |-> movie, raised |-> FALSE]

\* The tap of getMovieById: the source answered (with a movie or undefined).
getMovieByIdNext(state, movie) ==
    [st |-> setError(setLoading(state, FALSE), NULL), movie |-> movie, raised |-> FALSE]

\* A catchError of getMovieById that forgets setLoading(false).
getMovieByIdErrorKeepsLoading(state) ==
    [st |-> setError(state, "Failed to fetch movie details"), movie |-> <<>>, raised |-> FALSE]

\* The catchError of getMovieById.
getMovieByIdError(state) ==
    [st |-> setError(setLoading(state, FALSE), "Failed to fetch movie details"),
     movie |-> <<>>, raised |-> FALSE]

\* searchMovies up to its return.
searchMovies(state, query, limit) ==
    IF Trim(Chars(query)) = <<>>
    THEN [st |-> state, fetch |-> FALSE, emits |-> TRUE, movies |-> <<>>, cachedResults |-> <<>>]
    ELSE LET results == cachedResults(state, query)
         IN  IF Len(results) >= limit
             THEN [st |-> state, fetch |-> FALSE, emits |-> TRUE,
                   movies |-> Slice(results, 0, limit), cachedResults |-> results]
             ELSE [st |-> setLoading(state, TRUE), fetch |-> TRUE, emits |-> FALSE,
                   movies |-> <<>>, cachedResults |-> results]

\* A tap of searchMovies that leaves the error as it was.
searchMoviesNextKeepsError(state, movies) ==
    [st |-> setLoading(state, FALSE), movies |-> movies, raised |-> FALSE]

\* The tap of searchMovies.
searchMoviesNext(state, movies) ==
    [st |-> setError(setLoading(state, FALSE), NULL), movies |-> movies, raised |-> FALSE]

\* The catchError of searchMovies that falls back to of([]).
searchMoviesErrorEmpty(state, req) ==
    [st |-> setError(setLoading(state, FALSE), "Failed to search movies"),
     movies |-> <<>>, raised |-> FALSE]

\* The catchError of searchMovies: req holds the closure's cachedResults and limit.
searchMoviesError(state, req) ==
    [st |-> setError(setLoading(state, FALSE), "Failed to search movies"),
     movies |-> Slice(req.cachedResults, 0, req.limit), raised |-> FALSE]

(***************************************************************************)
(* Cache & Fetch Coordinator: initial state and steps                      *)
(***************************************************************************)
CacheKeys == {CacheKey(shape[1], shape[2]) : shape \in QueryShapes}

Never == 0 - 1

\* Per key, the time of the last getMovies call that invoked the Movie Source
\* (invoked), and the time of the last such call whose fetch has succeeded with
\* no clearCache since (answered); Never when there is none.
NoHistory == [k \in CacheKeys |-> [invoked |-> Never, answered |-> Never]]

Max(a, b) == IF a > b THEN a ELSE b

RemoveAt(seq, i) == SubSeq(seq, 1, i - 1) \o SubSeq(seq, i + 1, Len(seq))

\* What the caller of the last coordinator step saw: the step, its key, what
\* the stream emitted (if it did), whether the step invoked the Movie Source,
\* whether an error reached the caller, and the closure's cachedData.
Seen(op, cacheKey, emitted, ret, fetched, raised, cachedData) ==
    [op |-> op, cacheKey |-> cacheKey, emitted |-> emitted, ret |-> ret,
     fetched |-> fetched, raised |-> raised, cachedData |-> cachedData]

\* What a successful fetch saw besides: when its getMovies call was made, and
\* the entry its key had just before the tap wrote (<<>>: none).
SeenAnswer(seen, calledAt, overwrote) ==
    [op |-> seen.op, cacheKey |-> seen.cacheKey, emitted |-> seen.emitted, ret |-> seen.ret,
     fetched |-> seen.fetched, raised |-> seen.raised, cachedData |-> seen.cachedData,
     calledAt |-> calledAt, overwrote |-> overwrote]

CoordInit ==
    /\ movieState = initialState
    /\ now = 0
    /\ requests = <<>>
    /\ calls = 0
    /\ fetchHistory = NoHistory
    /\ coordLast = Seen("create", "", FALSE, <<>>, FALSE, FALSE, <<>>)
    /\ lookups = <<>>
    /\ lookupCalls = 0
    /\ mapObjects = initialMapObjects

GetMovies(type, limit) ==
    LET call == getMovies(movieState, type, limit, now)
    IN  /\ calls < MaxCalls
        /\ calls' = calls + 1
        /\ movieState' = call.st
        /\ requests' = IF call.fetch
                       THEN Append(requests, [cacheKey |-> call.cacheKey, type |-> type,
                                              limit |-> limit, cachedData |-> call.cachedData,
                                              calledAt |-> now])
                       ELSE requests
        /\ fetchHistory' = IF call.fetch
                           THEN [fetchHistory EXCEPT ![call.cacheKey].invoked = now]
                           ELSE fetchHistory
        /\ coordLast' = Seen("getMovies", call.cacheKey, call.emits, call.movies,
                             call.fetch, FALSE, call.cachedData)
        /\ UNCHANGED <<now, favVars, lookupVars, facadeVars, pipeVars, cardVars, mapObjects>>

\* The Movie Source answers the i-th fetch in flight from the list it holds then.
FetchSuccess(i, movieList) ==
    LET req == requests[i]
        done == getMoviesNext(movieState, req, getApiCall(req.type, req.limit, movieList), now)
    IN  /\ movieState' = done.st
        /\ requests' = RemoveAt(requests, i)
        /\ fetchHistory' = [fetchHistory EXCEPT ![req.cacheKey].answered =
                                Max(fetchHistory[req.cacheKey].answered, req.calledAt)]
        /\ coordLast' = SeenAnswer(Seen("fetchSuccess", req.cacheKey, TRUE, done.movies,
                                        FALSE, done.raised, req.cachedData),
                                   req.calledAt, getCachedMovies(movieState, req.cacheKey))
        /\ mapObjects' = Collect(updateMovieCacheObjects(mapObjects, req.cacheKey, done.movies,
                                                         req.type, now))
        /\ UNCHANGED <<now, calls, favVars, lookupVars, facadeVars, pipeVars, cardVars>>

\* The Movie Source fails the i-th fetch in flight.
FetchFailure(i) ==
    LET req == requests[i]
        done == getMoviesError(movieState, req)
    IN  /\ movieState' = done.st
        /\ requests' = RemoveAt(requests, i)
        /\ coordLast' = Seen("fetchFailure", req.cacheKey, TRUE, done.movies,
                             FALSE, done.raised, req.cachedData)
        /\ UNCHANGED <<now, calls, fetchHistory, favVars, lookupVars, facadeVars, pipeVars, cardVars, mapObjects>>

\* A clearCache that also drops the fetches in flight.
ClearCacheCancels ==
    /\ movieState' = clearCache(movieState)
    /\ requests' = <<>>
    /\ fetchHistory' = [k \in CacheKeys |-> [fetchHistory[k] EXCEPT !.answered = Never]]
    /\ coordLast' = Seen("clearCache", "", FALSE, <<>>, FALSE, FALSE, <<>>)
    /\ mapObjects' = Collect(clearCacheObjects(mapObjects))
    /\ UNCHANGED <<now, calls, favVars, lookupVars, facadeVars, pipeVars, cardVars>>

ClearCache ==
    /\ movieState' = clearCache(movieState)
    /\ fetchHistory' = [k \in CacheKeys |-> [fetchHistory[k] EXCEPT !.answered = Never]]
    /\ coordLast' = Seen("clearCache", "", FALSE, <<>>, FALSE, FALSE, <<>>)
    /\ mapObjects' = Collect(clearCacheObjects(mapObjects))
    /\ UNCHANGED <<now, requests, calls, favVars, lookupVars, facadeVars, pipeVars, cardVars>>

\* The clock readings at which the steps happen: the creation of the service,
\* just less than one cache duration later, one cache duration later.
Instants == {0, CACHE_DURATION - 1, CACHE_DURATION}

\* Time passes.
Tick(instant) ==
    /\ instant > now
    /\ now' = instant
    /\ coordLast' = Seen("tick", "", FALSE, <<>>, FALSE, FALSE, <<>>)
    /\ UNCHANGED <<movieState, requests, calls, fetchHistory, favVars, lookupVars, facadeVars, pipeVars, cardVars, mapObjects>>

\* A reader of the coordinator's state keeps the Map it finds there.
HoldCache ==
    /\ mapObjects.held # mapObjects.published
    /\ mapObjects' = Collect([mapObjects EXCEPT !.held = mapObjects.published,
                                                !.seen = mapObjects.objects[mapObjects.published]])
    /\ UNCHANGED <<movieState, now, requests, calls, fetchHistory, coordLast, lookupVars,
                   favVars, facadeVars, pipeVars, cardVars>>

CoordNext ==
    \/ \E shape \in QueryShapes : GetMovies(shape[1], shape[2])
    \/ \E i \in 1..Len(requests), movieList \in Catalogs : FetchSuccess(i, movieList)
    \/ \E i \in 1..Len(requests) : FetchFailure(i)
    \/ ClearCache
    \/ \E instant \in Instants : Tick(instant)

\* The ids getMovieById is asked for (the last one is in no list of the
\* source), and the queries and limits searchMovies is asked with.
LookupIds == {2, 4}

SearchShapes == {<<"", 1>>, <<" ", 3>>, <<"a", 1>>, <<"a", 3>>, <<"RAN", 1>>}

\* What the caller of the last getMovieById or searchMovies step saw: the
\* step, its arguments, what the stream emitted (if it did; for getMovieById
\* <<>> is undefined), whether the step invoked the Movie Source, whether an
\* error reached the caller, the closure's cachedResults, and the state$.value
\* the step found.
SeenLookup(op, id, query, limit, emitted, ret, fetched, raised, results, before) ==
    [op |-> op, id |-> id, query |-> query, limit |-> limit, emitted |-> emitted,
     ret |-> ret, fetched |-> fetched, raised |-> raised, cachedResults |-> results,
     before |-> before]

GetMovieById(id) ==
    LET call == getMovieById(movieState, id)
    IN  /\ lookupCalls < MaxLookups
        /\ lookupCalls' = lookupCalls + 1
        /\ movieState' = call.st
        /\ lookups' = IF call.fetch
                      THEN Append(lookups, [op |-> "getMovieById", id |-> id, query |-> "",
                                            limit |-> 0, cachedResults |-> <<>>])
                      ELSE lookups
        /\ coordLast' = SeenLookup("getMovieById", id, "", 0, call.emits, call.movie,
                                   call.fetch, FALSE, <<>>,
                                   movieState)
        /\ UNCHANGED <<now, requests, calls, fetchHistory, favVars, facadeVars, pipeVars, cardVars, mapObjects>>

\* The Movie Source answers the i-th lookup in flight, a getMovieById, from
\* the list it holds then.
DetailsSuccess(i, movieList) ==
    LET req == lookups[i]
        done == getMovieByIdNext(movieState, getMovieDetails(req.id, movieList))
    IN  /\ req.op = "getMovieById"
        /\ movieState' = done.st
        /\ lookups' = RemoveAt(lookups, i)
        /\ coordLast' = SeenLookup("detailsSuccess", req.id, "", 0, TRUE, done.movie,
                                   FALSE, done.raised, <<>>,
                                   movieState)
        /\ UNCHANGED <<now, requests, calls, fetchHistory, lookupCalls, favVars, facadeVars, pipeVars, cardVars, mapObjects>>

DetailsFailure(i) ==
    LET req == lookups[i]
        done == getMovieByIdError(movieState)
    IN  /\ req.op = "getMovieById"
        /\ movieState' = done.st
        /\ lookups' = RemoveAt(lookups, i)
        /\ coordLast' = SeenLookup("detailsFailure", req.id, "", 0, TRUE, done.movie,
                                   FALSE, done.raised, <<>>,
                                   movieState)
        /\ UNCHANGED <<now, requests, calls, fetchHistory, lookupCalls, favVars, facadeVars, pipeVars, cardVars, mapObjects>>

SearchMovies(query, limit) ==
    LET call == searchMovies(movieState, query, limit)
    IN  /\ lookupCalls < MaxLookups
        /\ lookupCalls' = lookupCalls + 1
        /\ movieState' = call.st
        /\ lookups' = IF call.fetch
                      THEN Append(lookups, [op |-> "searchMovies", id |-> 0, query |-> query,
                                            limit |-> limit,
                                            cachedResults |-> call.cachedResults])
                      ELSE lookups
        /\ coordLast' = SeenLookup("searchMovies", 0, query, limit, call.emits, call.movies,
                                   call.fetch, FALSE, call.cachedResults,
                                   movieState)
        /\ UNCHANGED <<now, requests, calls, fetchHistory, favVars, facadeVars, pipeVars, cardVars, mapObjects>>

SearchSuccess(i, movieList) ==
    LET req == lookups[i]
        done == searchMoviesNext(movieState,
                                 MovieApiService_searchMovies(req.query, req.limit, movieList))
    IN  /\ req.op = "searchMovies"
        /\ movieState' = done.st
        /\ lookups' = RemoveAt(lookups, i)
        /\ coordLast' = SeenLookup("searchSuccess", 0, req.query, req.limit, TRUE, done.movies,
                                   FALSE, done.raised, req.cachedResults,
                                   movieState)
        /\ UNCHANGED <<now, requests, calls, fetchHistory, lookupCalls, favVars, facadeVars, pipeVars, cardVars, mapObjects>>

SearchFailure(i) ==
    LET req == lookups[i]
        done == searchMoviesError(movieState, req)
    IN  /\ req.op = "searchMovies"
        /\ movieState' = done.st
        /\ lookups' = RemoveAt(lookups, i)
        /\ coordLast' = SeenLookup("searchFailure", 0, req.query, req.limit, TRUE, done.movies,
                                   FALSE, done.raised, req.cachedResults,
                                   movieState)
        /\ UNCHANGED <<now, requests, calls, fetchHistory, lookupCalls, favVars, facadeVars, pipeVars, cardVars, mapObjects>>

\* The shapes getMovies is called with beside the lookups: one whose entry
\* holds every movie of the source, one whose entry holds two of them.
LookupShapes == {<<"top-rated", 20>>, <<"chronological", 2>>}

\* The coordinator with all its operations.
LookupNext ==
    \/ \E shape \in LookupShapes : GetMovies(shape[1], shape[2])
    \/ \E i \in 1..Len(requests), movieList \in Catalogs : FetchSuccess(i, movieList)
    \/ \E i \in 1..Len(requests) : FetchFailure(i)
    \/ Tick(CACHE_DURATION)
    \/ \E id \in LookupIds : GetMovieById(id)
    \/ \E i \in 1..Len(lookups), movieList \in Catalogs : DetailsSuccess(i, movieList)
    \/ \E i \in 1..Len(lookups) : DetailsFailure(i)
    \/ \E shape \in SearchShapes : SearchMovies(shape[1], shape[2])
    \/ \E i \in 1..Len(lookups), movieList \in Catalogs : SearchSuccess(i, movieList)
    \/ \E i \in 1..Len(lookups) : SearchFailure(i)

\* The Movie Source answers or fails one of the fetches in flight.
SourceAnswers ==
    \/ \E i \in 1..Len(requests), movieList \in Catalogs : FetchSuccess(i, movieList)
    \/ \E i \in 1..Len(requests) : FetchFailure(i)
    \/ \E i \in 1..Len(lookups), movieList \in Catalogs : DetailsSuccess(i, movieList)
    \/ \E i \in 1..Len(lookups) : DetailsFailure(i)
    \/ \E i \in 1..Len(lookups), movieList \in Catalogs : SearchSuccess(i, movieList)
    \/ \E i \in 1..Len(lookups) : SearchFailure(i)

\* The three coordinator operations and the answers of the Movie Source, at
\* one instant.
ResolveNext ==
    \/ GetMovies("top-rated", 20)
    \/ \E id \in LookupIds : GetMovieById(id)
    \/ \E shape \in SearchShapes : SearchMovies(shape[1], shape[2])
    \/ SourceAnswers

(***************************************************************************)
(* MovieDataService: the facade over the two services                      *)
(***************************************************************************)
\* parseInt(id, 10) of the decimal text of a one-digit number.
ParseInt(str) == CHOOSE n \in 0..9 : NumberToString(n) = str

\* MovieFavoritesService.getFavorites: what the stream emits for a state.
getFavorites(state) ==
    LET favoriteStrings == ArrayFrom(state.favoriteIds)
    IN  [i \in 1..Len(favoriteStrings) |-> ParseInt(favoriteStrings[i])]

\* { ...movie, isFavorite }
WithFavorite(movie, isFavorite) ==
    [f \in DOMAIN movie \cup {"isFavorite"} |->
        IF f = "isFavorite" THEN isFavorite ELSE movie[f]]

\* An enrichment that never consults the favorite set.
enrichMoviesUntagged(movies, favoriteIds) ==
    [i \in 1..Len(movies) |-> WithFavorite(movies[i], FALSE)]

\* The map of enrichMoviesWithFavoriteStatus: what it emits for a favorite set.
enrichMoviesWithFavoriteStatus(movies, favoriteIds) ==
    [i \in 1..Len(movies) |->
        WithFavorite(movies[i], SetHas(favoriteIds, NumberToString(movies[i].id)))]

\* A map of getFavoriteMovies that tags without filtering.
favoriteMoviesUnfiltered(allMovies, favoriteIds) ==
    [i \in 1..Len(allMovies) |-> WithFavorite(allMovies[i], TRUE)]

\* The map of getFavoriteMovies over the movies getMovies emitted.
favoriteMovies(allMovies, favoriteIds) ==
    LET kept == SelectSeq(allMovies, LAMBDA movie :
                    \E i \in 1..Len(favoriteIds) : favoriteIds[i] = movie.id)
    IN  [i \in 1..Len(kept) |-> WithFavorite(kept[i], TRUE)]

\* A map of getMovieById without the guard: { ...undefined, isFavorite }.
enrichMovieUnguarded(found, isFavorite) ==
    IF found = <<>> THEN <<[isFavorite |-> isFavorite]>>
    ELSE <<WithFavorite(found[1], isFavorite)>>

\* The map of the facade's getMovieById over [movie, isFavorite]: <<>> is
\* undefined, <<movie>> the enriched movie.
enrichMovie(found, isFavorite) ==
    IF found = <<>> THEN <<>> ELSE <<WithFavorite(found[1], isFavorite)>>

\* MovieFavoritesService.isFavorite: what the stream emits for a favorite set.
isFavorite(favoriteIds, movieId) == SetHas(favoriteIds, NumberToString(movieId))

\* movie.release_date.substring(0, 3) + '0s', as characters.
Decade(release_date) == SubSeq(Chars(release_date), 1, 3) \o <<"0", "s">>

\* A grouping that leaves each group in the order the movies were pushed.
groupedByDecadeUnsorted(enrichedMovies) ==
    [decade \in {Decade(enrichedMovies[i].release_date) : i \in 1..Len(enrichedMovies)} |->
        SelectSeq(enrichedMovies, LAMBDA movie : Decade(movie.release_date) = decade)]

\* The map of getMoviesByDecades: decade -> its movies in release-date order.
groupedByDecade(enrichedMovies) ==
    [decade \in {Decade(enrichedMovies[i].release_date) : i \in 1..Len(enrichedMovies)} |->
        LET pushed == SelectSeq(enrichedMovies, LAMBDA movie : Decade(movie.release_date) = decade)
        IN  Values(SortByKey([i \in 1..Len(pushed) |->
                       [k |-> DateGetTime(pushed[i].release_date), v |-> pushed[i]]]))]

\* A subscribed facade stream: which method returned it, the movies its
\* switchMap holds from the coordinator (<<>>: none yet, <<movies>>), for
\* getFavoriteMovies the ids its switchMap closed over, and the collection the
\* subscriber received last (<<>>: none yet, <<collection>>). For getMovieById
\* movies holds the answer of the lookup (<<>>: none yet, << <<>> >>: undefined,
\* << <<movie>> >>) and ids the id asked for.
Stream(kind, movies, ids, emitted) ==
    [kind |-> kind, movies |-> movies, ids |-> ids, emitted |-> emitted]

\* What a stream emits when its switchMap holds movies.
Emission(kind, movies, ids, favoriteIds) ==
    CASE kind = "home" -> enrichMoviesWithFavoriteStatus(movies, favoriteIds)
      [] kind = "decades" -> groupedByDecade(enrichMoviesWithFavoriteStatus(movies, favoriteIds))
      [] kind = "favorites" -> favoriteMovies(movies, ids)
      [] kind = "detail" -> enrichMovie(movies, isFavorite(favoriteIds, ids[1]))

\* The coordinator delivers movies to stream i (of(cached movies), the answer
\* of a fetch or the fallback of a failed one): the facade's map runs and the
\* subscriber receives the collection. w = [ms, reqs, streams, calls, hist,
\* delivered]: the coordinator state, the fetches in flight, the streams, the
\* call count, the fetch history and the streams that received a collection.
Deliver(w, i, movies, favState) ==
    LET stream == w.streams[i]
    IN  [w EXCEPT !.streams[i] =
                      Stream(stream.kind, <<movies>>, stream.ids,
                             <<Emission(stream.kind, movies, stream.ids, favState.favoriteIds)>>),
                  !.delivered = @ \cup {i}]

\* The facade calls getMovies(type, limit) for stream i: the stream receives
\* the cached movies at once, or waits for the fetch, which records the
\* stream it answers (sub).
CallGetMovies(w, i, type, limit, favState, dateNow) ==
    LET call == getMovies(w.ms, type, limit, dateNow)
        called == [w EXCEPT !.ms = call.st, !.calls = @ + 1]
    IN  IF call.fetch
        THEN [called EXCEPT
                 !.reqs = Append(@, [cacheKey |-> call.cacheKey, type |-> type,
                                     limit |-> limit, cachedData |-> call.cachedData,
                                     calledAt |-> dateNow, sub |-> i]),
                 !.hist = IF call.cacheKey \in DOMAIN @
                          THEN [@ EXCEPT ![call.cacheKey].invoked = dateNow] ELSE @]
        ELSE Deliver(called, i, call.movies, favState)

\* switchMap unsubscribes stream i from the fetches it waited for; the
\* fetches go on (shareReplay keeps them subscribed).
Unsubscribe(reqs, i) ==
    [r \in 1..Len(reqs) |-> IF reqs[r].sub = i THEN [reqs[r] EXCEPT !.sub = 0] ELSE reqs[r]]

\* A switchMap that asks the coordinator even for an empty id list.
FavoritesSwitchAlwaysFetches(w, i, favState, dateNow) ==
    CallGetMovies([w EXCEPT !.reqs = Unsubscribe(@, i),
                            !.streams[i] = Stream("favorites", <<>>, getFavorites(favState),
                                                  @.emitted)],
                  i, "top-rated", 1000, favState, dateNow)

\* The switchMap of getFavoriteMovies runs for the ids the favorites stream emitted.
FavoritesSwitch(w, i, favState, dateNow) ==
    LET favoriteIds == getFavorites(favState)
        switched == [w EXCEPT !.reqs = Unsubscribe(@, i),
                              !.streams[i] = Stream("favorites", <<>>, favoriteIds, @.emitted)]
    IN  IF Len(favoriteIds) = 0
        THEN [switched EXCEPT !.streams[i].emitted = << <<>> >>, !.delivered = @ \cup {i}]
        ELSE CallGetMovies(switched, i, "top-rated", 1000, favState, dateNow)

\* Streams that took their snapshot once and ignore later publications.
PublishToNobody(w, i, favState, dateNow) == w

\* favoritesState$ publishes favState: each subscribed stream reacts, in the
\* order of subscription. A home or decades stream whose switchMap holds a
\* non-empty movie list maps the new set; a favorites stream switches; the
\* combineLatest of a detail stream that holds the lookup's answer maps again.
RECURSIVE Publish(_, _, _, _)
Publish(w, i, favState, dateNow) ==
    IF i > Len(w.streams) THEN w
    ELSE LET stream == w.streams[i]
             reacted ==
                 IF stream.kind = "favorites" THEN FavoritesSwitch(w, i, favState, dateNow)
                 ELSE IF stream.movies # <<>> /\ (stream.kind = "detail" \/ stream.movies[1] # <<>>)
                 THEN Deliver(w, i, stream.movies[1], favState)
                 ELSE w
         IN  Publish(reacted, i + 1, favState, dateNow)

(***************************************************************************)
(* MovieDataService: initial state and steps                               *)
(***************************************************************************)
FacadeInit ==
    /\ streams = <<>>
    /\ facadeLast = [op |-> "create", delivered |-> {}]

\* The coordinator and the streams as a step finds them.
World ==
    [ms |-> movieState, reqs |-> requests, streams |-> streams, calls |-> calls,
     hist |-> fetchHistory, delivered |-> {}, maps |-> mapObjects]

\* The coordinator and the streams as a step leaves them.
Install(w, op) ==
    /\ w.calls <= MaxCalls
    /\ movieState' = w.ms
    /\ requests' = w.reqs
    /\ streams' = w.streams
    /\ calls' = w.calls
    /\ fetchHistory' = w.hist
    /\ mapObjects' = w.maps
    /\ facadeLast' = [op |-> op, delivered |-> w.delivered]
    /\ coordLast' = Seen(op, "", FALSE, <<>>, FALSE, FALSE, <<>>)
    /\ UNCHANGED <<now, lookupVars, pipeVars>>

\* A component calls the facade method and subscribes to the stream it returns.
Subscribed(kind) ==
    [World EXCEPT !.streams = Append(@, Stream(kind, <<>>, <<>>, <<>>))]

GetHomeMovies ==
    /\ Len(streams) < MaxSubs
    /\ Install(CallGetMovies(Subscribed("home"), Len(streams) + 1, "top-rated", 20,
                             favoritesState, now), "getHomeMovies")
    /\ UNCHANGED <<favVars, cardVars>>

GetMoviesByDecades ==
    /\ Len(streams) < MaxSubs
    /\ Install(CallGetMovies(Subscribed("decades"), Len(streams) + 1, "top-rated", 1000,
                             favoritesState, now), "getMoviesByDecades")
    /\ UNCHANGED <<favVars, cardVars>>

GetFavoriteMovies ==
    /\ Len(streams) < MaxSubs
    /\ Install(FavoritesSwitch(Subscribed("favorites"), Len(streams) + 1, favoritesState, now),
               "getFavoriteMovies")
    /\ UNCHANGED <<favVars, cardVars>>

\* The Movie Source answers the i-th fetch in flight: the tap of getMovies
\* runs, then the stream that waits for it receives the movies.
FacadeFetchSuccess(i, movieList) ==
    LET req == requests[i]
        done == getMoviesNext(movieState, req, getApiCall(req.type, req.limit, movieList), now)
        w == [World EXCEPT
                 !.ms = done.st,
                 !.reqs = RemoveAt(@, i),
                 !.hist = IF req.cacheKey \in DOMAIN @
                          THEN [@ EXCEPT ![req.cacheKey].answered = Max(@, req.calledAt)]
                          ELSE @,
                 !.maps = Collect(updateMovieCacheObjects(@, req.cacheKey, done.movies,
                                                          req.type, now))]
    IN  /\ Install(IF req.sub # 0 THEN Deliver(w, req.sub, done.movies, favoritesState) ELSE w,
                   "fetchSuccess")
        /\ UNCHANGED <<favVars, cardVars>>

\* The Movie Source fails the i-th fetch in flight: the catchError of
\* getMovies runs, then the stream that waits for it receives the fallback.
FacadeFetchFailure(i) ==
    LET req == requests[i]
        done == getMoviesError(movieState, req)
        w == [World EXCEPT !.ms = done.st, !.reqs = RemoveAt(@, i)]
    IN  /\ Install(IF req.sub # 0 THEN Deliver(w, req.sub, done.movies, favoritesState) ELSE w,
                   "fetchFailure")
        /\ UNCHANGED <<favVars, cardVars>>

\* toggleMovieFavorite: the Favorites Store publishes the new set, and once
\* more when the failed write sets the error.
ToggleMovieFavoriteStep(movieId, setItemThrows) ==
    /\ ToggleFavoriteStep(movieId, setItemThrows)
    /\ LET once == Publish(World, 1, favoritesState', now)
       IN  Install(IF setItemThrows
                   THEN [Publish([once EXCEPT !.delivered = {}], 1, favoritesState', now)
                            EXCEPT !.delivered = @ \cup once.delivered]
                   ELSE once,
                   "toggleFavorite")

ToggleMovieFavorite(movieId, setItemThrows) ==
    ToggleMovieFavoriteStep(movieId, setItemThrows) /\ UNCHANGED cardVars

\* The startup promise resolves with streams subscribed.
FacadeLoadResolve ==
    /\ LoadResolveStep
    /\ Install(Publish(World, 1, favoritesState', now), "loadResolve")
    /\ UNCHANGED cardVars

\* The facade's getMovieById: the coordinator's lookup is made at the call,
\* the component subscribes to the combineLatest.
FacadeGetMovieById(id) ==
    LET call == getMovieById(movieState, id)
        i == Len(streams) + 1
        asked == [World EXCEPT !.ms = call.st,
                               !.streams = Append(@, Stream("detail", <<>>, <<id>>, <<>>))]
    IN  /\ Len(streams) < MaxSubs
        /\ lookupCalls < MaxLookups
        /\ lookupCalls' = lookupCalls + 1
        /\ lookups' = IF call.fetch
                      THEN Append(lookups, [op |-> "getMovieById", id |-> id, query |-> "",
                                            limit |-> 0, cachedResults |-> <<>>, sub |-> i])
                      ELSE lookups
        /\ LET w == IF call.fetch THEN asked ELSE Deliver(asked, i, call.movie, favoritesState)
           IN  /\ movieState' = w.ms
               /\ streams' = w.streams
               /\ facadeLast' = [op |-> "getMovieById", delivered |-> w.delivered]
        /\ coordLast' = SeenLookup("getMovieById", id, "", 0, call.emits, call.movie,
                                   call.fetch, FALSE, <<>>, movieState)
        /\ UNCHANGED <<now, requests, calls, fetchHistory, favVars, pipeVars, cardVars, mapObjects>>

\* The Movie Source answers the lookup of a detail stream (with the movie or
\* undefined), or fails it: the tap or the catchError of the coordinator's
\* getMovieById runs, then the combineLatest emits.
FacadeDetailsAnswer(i, done, op) ==
    LET req == lookups[i]
        w == Deliver([World EXCEPT !.ms = done.st], req.sub, done.movie, favoritesState)
    IN  /\ movieState' = w.ms
        /\ streams' = w.streams
        /\ facadeLast' = [op |-> op, delivered |-> w.delivered]
        /\ lookups' = RemoveAt(lookups, i)
        /\ coordLast' = SeenLookup(op, req.id, "", 0, TRUE, done.movie,
                                   FALSE, done.raised, <<>>, movieState)
        /\ UNCHANGED <<now, requests, calls, fetchHistory, lookupCalls, favVars, pipeVars, cardVars, mapObjects>>

FacadeDetailsSuccess(i, movieList) ==
    FacadeDetailsAnswer(i, getMovieByIdNext(movieState, getMovieDetails(lookups[i].id, movieList)),
                        "detailsSuccess")

FacadeDetailsFailure(i) ==
    FacadeDetailsAnswer(i, getMovieByIdError(movieState), "detailsFailure")

\* The facade's getMovieById next to the coordinator's getMovies (which fills
\* the cache the lookup reads) and the Favorites Store, whose toggles are
\* those of the ids the lookups ask for.
DetailNext ==
    \/ GetMovies("top-rated", 20)
    \/ \E i \in 1..Len(requests), movieList \in Catalogs : FetchSuccess(i, movieList)
    \/ \E id \in LookupIds : FacadeGetMovieById(id)
    \/ \E i \in 1..Len(lookups), movieList \in Catalogs : FacadeDetailsSuccess(i, movieList)
    \/ \E i \in 1..Len(lookups) : FacadeDetailsFailure(i)
    \/ \E movieId \in MovieIds \cap LookupIds, setItemThrows \in BOOLEAN :
          ToggleMovieFavorite(movieId, setItemThrows)
    \/ FacadeLoadResolve

FacadeNext ==
    \/ GetHomeMovies
    \/ GetMoviesByDecades
    \/ GetFavoriteMovies
    \/ \E i \in 1..Len(requests), movieList \in Catalogs : FacadeFetchSuccess(i, movieList)
    \/ \E i \in 1..Len(requests) : FacadeFetchFailure(i)
    \/ \E movieId \in MovieIds, setItemThrows \in BOOLEAN :
          ToggleMovieFavorite(movieId, setItemThrows)
    \/ FacadeLoadResolve

(***************************************************************************)
(* PosterSrcPipe                                                           *)
(***************************************************************************)
baseImageUrl == "https://image.tmdb.org/t/p/"

validSizes == {"w92", "w154", "w185", "w342", "w500", "w780", "original"}

\* The size argument left out by the caller.
UNDEFINED == "UNDEFINED"

\* !posterPath: null, undefined and the empty string are falsy.
Falsy(value) == value \in {NULL, UNDEFINED, ""}

\* A transform that trusts the size it is given.
transformUnvalidated(posterPath, sizeArgument) ==
    IF Falsy(posterPath) THEN "assets/no-poster-placeholder.svg"
    ELSE baseImageUrl \o (IF sizeArgument = UNDEFINED THEN "w500" ELSE sizeArgument)
                      \o posterPath

\* PosterSrcPipe.transform(posterPath, size = 'w500')
transform(posterPath, sizeArgument) ==
    LET size == IF sizeArgument = UNDEFINED THEN "w500" ELSE sizeArgument
    IN  IF Falsy(posterPath) THEN "assets/no-poster-placeholder.svg"
        ELSE baseImageUrl \o (IF size \notin validSizes THEN "w500" ELSE size) \o posterPath

\* The poster paths the templates pass: none, empty, and paths as the Movie
\* Source gives them.
PosterPaths ==
    {NULL, "", " ", "/", "/a.jpg", "/b.png", "/abc123.jpg", "a.jpg", "/x/y.jpg"}

\* The sizes the templates pass: the valid ones, none, and values outside
\* the valid sizes.
PosterSizes == validSizes \cup {UNDEFINED, NULL, "", "w999", "W500", "w50"}

PosterCall(op, posterPath, size, url) ==
    [op |-> op, posterPath |-> posterPath, size |-> size, url |-> url]

PipeInit == posterSrc = PosterCall("create", NULL, UNDEFINED, "")

\* A template evaluates posterPath | posterSrc:size.
Transform(posterPath, size) ==
    /\ posterSrc' = PosterCall("transform", posterPath, size, transform(posterPath, size))
    /\ UNCHANGED <<favVars, coordVars, facadeVars, cardVars>>

PipeNext == \E posterPath \in PosterPaths, size \in PosterSizes : Transform(posterPath, size)

\* C24: transform of a non-empty poster path with a size outside the seven
\* valid sizes returns the URL of size 'w500'; with a null or empty poster
\* path it returns the placeholder image whatever the size.
C24_InvalidSizeFallsBackToW500 ==
    posterSrc.op = "transform"
    => /\ posterSrc.posterPath \in {NULL, ""}
             => posterSrc.url = "assets/no-poster-placeholder.svg"
       /\ (/\ posterSrc.posterPath \notin {NULL, ""}
           /\ posterSrc.size \notin {"w92", "w154", "w185", "w342", "w500", "w780", "original"})
             => posterSrc.url = "https://image.tmdb.org/t/p/w500" \o posterSrc.posterPath

C24_Witness ==
    /\ posterSrc.op = "transform"
    /\ posterSrc.posterPath = "/abc123.jpg"
    /\ posterSrc.size = "w999"
    /\ posterSrc.url = "https://image.tmdb.org/t/p/w500/abc123.jpg"

(***************************************************************************)
(* MovieCardComponent: the movie it was given and the favorite flag it     *)
(* keeps for it                                                            *)
(***************************************************************************)
Card(created, id, isFav) == [created |-> created, id |-> id, isFavorite |-> isFav]

CardsInit == card = Card(FALSE, 0, FALSE)

\* The type guard: 'isFavorite' in movie.
isEnrichedMovie(movie) == "isFavorite" \in DOMAIN movie

\* ngOnInit: the flag of an enriched movie, else the first emission of
\* isMovieFavorite, which is the membership in the set current at the call.
ngOnInit(movie, favoriteIds) ==
    IF isEnrichedMovie(movie) THEN movie.isFavorite ELSE isFavorite(favoriteIds, movie.id)

\* toggleFavorite of the card: this.isFavorite = !this.isFavorite.
CardFlagAfterToggle(flag) == ~flag

\* The movies a page can hand to a card: the enriched movies a home stream
\* emitted last, and the plain movies the coordinator holds.
CardInputs ==
    UNION {Elements(streams[i].emitted[1]) :
              i \in {j \in 1..Len(streams) : streams[j].kind = "home" /\ streams[j].emitted # <<>>}}
    \cup UNION {Elements(movieState.cache[i].movies) : i \in 1..Len(movieState.cache)}

\* A page renders a card for the movie: the constructor and ngOnInit.
CardNgOnInit(movie) ==
    /\ ~card.created
    /\ movie.id \in MovieIds
    /\ card' = Card(TRUE, movie.id, ngOnInit(movie, favoritesState.favoriteIds))
    /\ UNCHANGED <<favVars, coordVars, facadeVars, pipeVars>>

\* The page drops the card (its list is rendered anew, or the page is left).
CardDestroy ==
    /\ card.created
    /\ card' = Card(FALSE, 0, FALSE)
    /\ UNCHANGED <<favVars, coordVars, facadeVars, pipeVars>>

\* A click on the card's favorite button: toggleMovieFavorite, then the flag.
CardToggleFavorite(setItemThrows) ==
    /\ card.created
    /\ ToggleMovieFavoriteStep(card.id, setItemThrows)
    /\ card' = [card EXCEPT !.isFavorite = CardFlagAfterToggle(@)]

\* C39: after every click on a card the flag the card shows is the Favorites
\* Store's isFavoriteSync for the card's movie, also for a card that was
\* initialized before the startup load resolved.
C39_CardFlagFollowsTheStore ==
    [][(card.created /\ card'.created /\ card'.isFavorite # card.isFavorite)
          => card'.isFavorite = isFavoriteSync(favoritesState', card'.id)]_vars

(***************************************************************************)
(* Cache & Fetch Coordinator: properties                                   *)
(***************************************************************************)
\* The entry the cache holds for the key of the last step (<<>>: none).
EntryOfLast(state, last) == SelectSeq(state.cache, LAMBDA e : e.key = last.cacheKey)

\* C1 (as stated): a getMovies call made less than CACHE_DURATION after an
\* earlier getMovies call of the same shape that invoked the Movie Source does
\* not invoke it again: two calls in one window, at most one invocation.
C1_OneInvocationPerWindow ==
    [][(coordLast'.op = "getMovies" /\ coordLast'.fetched) =>
          LET invoked == fetchHistory[coordLast'.cacheKey].invoked
          IN  ~(invoked # Never /\ now - invoked < CACHE_DURATION)]_vars

\* C1 (amended): a getMovies call made less than CACHE_DURATION after an
\* earlier call of the same shape does not invoke the Movie Source when that
\* earlier call's fetch has succeeded before it and clearCache was not called
\* since: the two calls cause one invocation.
C1_OneInvocationAfterAnsweredFetch ==
    [][coordLast'.op = "getMovies" =>
          LET answered == fetchHistory[coordLast'.cacheKey].answered
          IN  (answered # Never /\ now - answered < CACHE_DURATION)
                  => ~coordLast'.fetched]_vars

C1_Witness ==
    /\ coordLast.op = "getMovies"
    /\ ~coordLast.fetched
    /\ fetchHistory[coordLast.cacheKey].answered = 0
    /\ fetchHistory[coordLast.cacheKey].invoked = 0
    /\ now = CACHE_DURATION - 1

\* C2: getMovies called while the cache holds an entry for its key aged less
\* than CACHE_DURATION emits that entry's movies, does not invoke the Movie
\* Source, and leaves cache, loading and error as they were.
C2_ValidEntryIsServedUntouched ==
    [][coordLast'.op = "getMovies" =>
          LET entry == EntryOfLast(movieState, coordLast')
          IN  (entry # <<>> /\ now - entry[1].lastUpdated < CACHE_DURATION) =>
                  /\ coordLast'.emitted
                  /\ coordLast'.ret = entry[1].movies
                  /\ ~coordLast'.fetched
                  /\ requests' = requests
                  /\ movieState' = movieState]_vars

C2_Witness ==
    /\ coordLast.op = "getMovies"
    /\ coordLast.emitted
    /\ ~coordLast.fetched
    /\ Len(coordLast.ret) = 2
    /\ EntryOfLast(movieState, coordLast)[1].lastUpdated = 0
    /\ now = CACHE_DURATION - 1

\* C3: when a getMovies fetch fails while the cache holds an entry for its key
\* aged less than CACHE_DURATION, the stream emits that entry's movies and
\* error is set.
C3_FailureServesValidEntry ==
    coordLast.op = "fetchFailure" =>
        LET entry == EntryOfLast(movieState, coordLast)
        IN  (entry # <<>> /\ now - entry[1].lastUpdated < CACHE_DURATION) =>
                /\ coordLast.ret = entry[1].movies
                /\ movieState.error # NULL

C13_BlankQuerySearchIsInert ==
    (coordLast.op = "searchMovies" /\ coordLast.query \in {"", " "}) =>
        /\ coordLast.emitted
        /\ coordLast.ret = <<>>
        /\ ~coordLast.fetched
        /\ ~coordLast.raised
        /\ movieState = coordLast.before

C13_Witness ==
    /\ coordLast.op = "searchMovies"
    /\ coordLast.query = " "
    /\ coordLast.ret = <<>>
    /\ Len(movieState.cache) = 1
    /\ movieState.loading

\* The positions <<entry, movie>> at which a cache map holds a movie with the id.
HoldersOf(cache, id) ==
    UNION {{<<i, j>> : j \in {k \in 1..Len(cache[i].movies) : cache[i].movies[k].id = id}} :
              i \in 1..Len(cache)}

\* C14: getMovieById(id) called while some cache entry, of any key and any
\* age, holds a movie with the id emits the first such movie (entries in the
\* map's order, movies in the entry's order), does not invoke the Movie
\* Source, and leaves cache, loading and error as they were.
C14_CachedMovieIsFoundWithoutFetch ==
    coordLast.op = "getMovieById" =>
        LET cache == coordLast.before.cache
            holders == HoldersOf(cache, coordLast.id)
        IN  holders # {} =>
              LET first == CHOOSE pos \in holders : \A other \in holders :
                               \/ pos[1] < other[1]
                               \/ pos[1] = other[1] /\ pos[2] <= other[2]
              IN  /\ coordLast.emitted
                  /\ coordLast.ret = <<cache[first[1]].movies[first[2]]>>
                  /\ ~coordLast.fetched
                  /\ movieState = coordLast.before

C14_Witness ==
    /\ coordLast.op = "getMovieById"
    /\ coordLast.emitted
    /\ Len(movieState.cache) = 2
    /\ now - movieState.cache[1].lastUpdated >= CACHE_DURATION
    /\ now - movieState.cache[2].lastUpdated < CACHE_DURATION
    /\ \E j \in 1..Len(movieState.cache[2].movies) :
          /\ movieState.cache[2].movies[j].id = coordLast.id
          /\ movieState.cache[2].movies[j] # coordLast.ret[1]

\* C15: getMovieById(id) called while no cache entry holds the id invokes the
\* Movie Source; neither the call nor its completion changes the cache; an
\* answer for an id the source does not have is undefined with error null; a
\* failure of the source is undefined with error set, and nothing is raised.
C15_UncachedLookupFetchesWithoutWriteBack ==
    /\ (coordLast.op = "getMovieById" /\ HoldersOf(coordLast.before.cache, coordLast.id) = {}) =>
            /\ coordLast.fetched
            /\ ~coordLast.emitted
            /\ movieState.cache = coordLast.before.cache
    /\ coordLast.op = "detailsSuccess" =>
            /\ movieState.cache = coordLast.before.cache
            /\ movieState.error = NULL
            /\ ~coordLast.raised
            /\ (\A movieList \in Catalogs : \A k \in 1..Len(movieList) :
                    movieList[k].id # coordLast.id) => coordLast.ret = <<>>
            /\ coordLast.ret # <<>> => coordLast.ret[1].id = coordLast.id
    /\ coordLast.op = "detailsFailure" =>
            /\ movieState.cache = coordLast.before.cache
            /\ movieState.error # NULL
            /\ ~coordLast.raised
            /\ coordLast.ret = <<>>

C15_Witness ==
    /\ coordLast.op = "detailsSuccess"
    /\ coordLast.id = 4
    /\ coordLast.ret = <<>>
    /\ coordLast.before.error # NULL
    /\ movieState.error = NULL
    /\ Len(movieState.cache) = 1

\* The ids of the source's movies whose title, original title or overview
\* contains the query, letter case aside: "a" is in Heat, Ran and "old man",
\* "ran" in Ran only.
MatchingIds(query) ==
    CASE query = "a" -> {1, 2, 3}
      [] query = "RAN" -> {2}
      [] OTHER -> {}

\* C16: searchMovies with a non-blank query, called while the cache-derived
\* matches (the movies of all entries in map order, each id at its first
\* occurrence only, that match the query) number at least limit, emits the
\* first limit of them, does not invoke the Movie Source and leaves cache,
\* loading and error as they were; no searchMovies result is longer than limit.
C16_EnoughCachedMatchesAreServed ==
    /\ (coordLast.op = "searchMovies" /\ coordLast.query \notin {"", " "}) =>
          LET all == allCachedMovies(coordLast.before.cache)
              firstOccurrences == {i \in 1..Len(all) : \A j \in 1..(i - 1) : all[j].id # all[i].id}
              matches == {i \in firstOccurrences : all[i].id \in MatchingIds(coordLast.query)}
          IN  Cardinality(matches) >= coordLast.limit =>
                /\ coordLast.emitted
                /\ Len(coordLast.ret) = coordLast.limit
                /\ \A k \in 1..coordLast.limit : \E i \in matches :
                      /\ Cardinality({m \in matches : m < i}) = k - 1
                      /\ coordLast.ret[k] = all[i]
                /\ ~coordLast.fetched
                /\ movieState = coordLast.before
    /\ (coordLast.op \in {"searchMovies", "searchSuccess", "searchFailure"} /\ coordLast.emitted) =>
          Len(coordLast.ret) <= coordLast.limit

C16_Witness ==
    /\ coordLast.op = "searchMovies"
    /\ coordLast.query = "a"
    /\ coordLast.limit = 3
    /\ coordLast.emitted
    /\ Len(coordLast.ret) = 3
    /\ Len(movieState.cache) = 2
    /\ Len(movieState.cache[1].movies) = 2
    /\ coordLast.ret[2] = movieState.cache[1].movies[2]
    /\ \E k \in 1..Len(movieState.cache[2].movies) :
          /\ movieState.cache[2].movies[k].id = coordLast.ret[2].id
          /\ movieState.cache[2].movies[k] # coordLast.ret[2]

\* C17: a searchMovies call that goes to the Movie Source has taken the
\* cache-derived matches from the cache as it was at the call; when the
\* source fails, the stream emits those matches cut to limit, loading is FALSE,
\* error is set and nothing is raised.
C17_FailedSearchFallsBackToCachedMatches ==
    /\ (coordLast.op = "searchMovies" /\ coordLast.fetched) =>
          LET all == allCachedMovies(coordLast.before.cache)
              firstOccurrences == {i \in 1..Len(all) : \A j \in 1..(i - 1) : all[j].id # all[i].id}
              matches == {i \in firstOccurrences : all[i].id \in MatchingIds(coordLast.query)}
          IN  /\ Len(coordLast.cachedResults) = Cardinality(matches)
              /\ \A k \in 1..Len(coordLast.cachedResults) : \E i \in matches :
                    /\ Cardinality({m \in matches : m < i}) = k - 1
                    /\ coordLast.cachedResults[k] = all[i]
    /\ coordLast.op = "searchFailure" =>
          /\ coordLast.emitted
          /\ ~coordLast.raised
          /\ Len(coordLast.ret) =
                 IF Len(coordLast.cachedResults) < coordLast.limit
                 THEN Len(coordLast.cachedResults) ELSE coordLast.limit
          /\ \A k \in 1..Len(coordLast.ret) : coordLast.ret[k] = coordLast.cachedResults[k]
          /\ movieState.loading = FALSE
          /\ movieState.error # NULL

C17_Witness ==
    /\ coordLast.op = "searchFailure"
    /\ coordLast.query = "a"
    /\ Len(coordLast.ret) = 2
    /\ Len(movieState.cache) = 2
    /\ Len(allCachedMovies(movieState.cache)) = 5
    /\ movieState.error = "Failed to search movies"

\* C18: clearCache leaves the cache map empty and leaves loading and error as
\* they were, also while fetches are in flight.
C18_ClearCacheTouchesOnlyTheCache ==
    [][coordLast'.op = "clearCache" =>
          /\ movieState'.cache = <<>>
          /\ movieState'.loading = movieState.loading
          /\ movieState'.error = movieState.error
          /\ requests' = requests]_vars

C18_Witness ==
    /\ coordLast.op = "clearCache"
    /\ movieState.cache = <<>>
    /\ movieState.loading
    /\ Len(requests) = 1
    /\ requests[1].cachedData # <<>>

\* C26: a getMovies call made while a fetch for its key is in flight and no
\* valid entry exists starts its own fetch; and when a fetch succeeds over an
\* entry that a concurrent fetch for the same key installed after this
\* fetch's call, the entry for the key becomes this fetch's movies stamped
\* with this completion's time: the one that completes last wins.
C26_LastCompletedFetchWins ==
    /\ [][(/\ coordLast'.op = "getMovies"
           /\ \E r \in 1..Len(requests) : requests[r].cacheKey = coordLast'.cacheKey
           /\ LET entry == EntryOfLast(movieState, coordLast')
              IN  entry = <<>> \/ now - entry[1].lastUpdated >= CACHE_DURATION)
          => /\ coordLast'.fetched
             /\ Len(requests') = Len(requests) + 1
             /\ requests'[Len(requests')].cacheKey = coordLast'.cacheKey]_vars
    /\ [](coordLast.op = "fetchSuccess"
          => LET entry == EntryOfLast(movieState, coordLast)
             IN  /\ Len(entry) = 1
                 /\ entry[1].movies = coordLast.ret
                 /\ entry[1].lastUpdated = now)

C26_Witness ==
    /\ coordLast.op = "fetchSuccess"
    /\ requests = <<>>
    /\ coordLast.cachedData = <<>>
    /\ coordLast.overwrote # <<>>
    /\ coordLast.overwrote[1].lastUpdated >= coordLast.calledAt
    /\ coordLast.overwrote[1].lastUpdated < now
    /\ coordLast.overwrote[1].movies # coordLast.ret
    /\ EntryOfLast(movieState, coordLast)[1].movies = coordLast.ret
    /\ EntryOfLast(movieState, coordLast)[1].lastUpdated = now

\* C29: clearCache leaves the fetches in flight as they are, and a fetch that
\* succeeds afterwards writes its entry as any other: without a new getMovies
\* call, an empty cache becomes the one entry of the fetch's key.
C29_FetchInFlightSurvivesClearCache ==
    /\ [][coordLast'.op = "clearCache"
            => requests' = requests /\ movieState'.cache = <<>>]_vars
    /\ [][coordLast'.op = "fetchSuccess"
            => /\ calls' = calls
               /\ Len(requests') = Len(requests) - 1
               /\ LET entry == EntryOfLast(movieState', coordLast')
                  IN  /\ Len(entry) = 1
                      /\ entry[1].movies = coordLast'.ret
                      /\ entry[1].lastUpdated = now
                      /\ coordLast'.ret # <<>>
                      /\ movieState.cache = <<>> => movieState'.cache = entry]_vars

C29_Witness ==
    /\ coordLast.op = "fetchSuccess"
    /\ coordLast.cachedData # <<>>
    /\ coordLast.overwrote = <<>>
    /\ Len(movieState.cache) = 1
    /\ movieState.cache[1].key = coordLast.cacheKey
    /\ movieState.cache[1].lastUpdated = now

\* C30: getMovies serves the entry of its key exactly when the entry is aged
\* less than CACHE_DURATION (at exactly CACHE_DURATION it fetches); an entry,
\* stale or not, leaves the cache only by clearCache and is replaced only by
\* the successful fetch of its own key.
C30_ServedIffYoungerAndStaleEntriesStay ==
    /\ [][coordLast'.op = "getMovies" =>
            LET entry == EntryOfLast(movieState, coordLast')
                young == entry # <<>> /\ now - entry[1].lastUpdated < CACHE_DURATION
            IN  /\ (coordLast'.emitted /\ ~coordLast'.fetched) <=> young
                /\ coordLast'.fetched <=> ~young
                /\ young => coordLast'.ret = entry[1].movies
                /\ Len(requests') = Len(requests) + (IF young THEN 0 ELSE 1)]_vars
    /\ [][\A i \in 1..Len(movieState.cache) :
            \/ coordLast'.op = "clearCache" /\ movieState'.cache = <<>>
            \/ i <= Len(movieState'.cache) /\ movieState'.cache[i] = movieState.cache[i]
            \/ /\ coordLast'.op = "fetchSuccess"
               /\ coordLast'.cacheKey = movieState.cache[i].key
               /\ i <= Len(movieState'.cache)
               /\ movieState'.cache[i].key = movieState.cache[i].key
               /\ movieState'.cache[i].movies = coordLast'.ret
               /\ movieState'.cache[i].lastUpdated = now]_vars

C30_Witness ==
    /\ coordLast.op = "getMovies"
    /\ coordLast.fetched
    /\ ~coordLast.emitted
    /\ now = CACHE_DURATION
    /\ coordLast.cachedData # <<>>
    /\ coordLast.cachedData[1].lastUpdated = 0
    /\ EntryOfLast(movieState, coordLast) = coordLast.cachedData
    /\ Len(requests) = 1

\* C31: when the Movie Source answers the fetch of a getMovies call, the entry
\* of the call's key becomes exactly the fetched movies of the call's kind and
\* limit, with the time of the answer and the call's kind, whatever the key
\* held before; the state ends with error = null and loading = false, and
\* the stream emits the fetched movies.
C31_SuccessReplacesEntryAndReturnsFetched ==
    [][coordLast'.op = "fetchSuccess" =>
          \E i \in 1..Len(requests), movieList \in Catalogs :
              LET req == requests[i]
                  fetched == getApiCall(req.type, req.limit, movieList)
              IN  /\ req.cacheKey = coordLast'.cacheKey
                  /\ EntryOfLast(movieState', coordLast') =
                         << [key |-> req.cacheKey, movies |-> fetched,
                             lastUpdated |-> now, type |-> req.type] >>
                  /\ movieState'.error = NULL
                  /\ movieState'.loading = FALSE
                  /\ coordLast'.emitted
                  /\ ~coordLast'.raised
                  /\ coordLast'.ret = fetched]_vars

C31_Witness ==
    /\ coordLast.op = "fetchSuccess"
    /\ coordLast.cachedData # <<>>
    /\ coordLast.overwrote = coordLast.cachedData
    /\ coordLast.overwrote[1].movies # coordLast.ret
    /\ coordLast.overwrote[1].lastUpdated < now
    /\ EntryOfLast(movieState, coordLast)[1].movies = coordLast.ret
    /\ EntryOfLast(movieState, coordLast)[1].lastUpdated = now
    /\ movieState.error = NULL
    /\ ~movieState.loading

\* C33: the Set or Map a reader has kept has the content it had when the
\* reader received it, whatever the stores have done since; the published
\* Set and Map hold what the states hold; and a step that changes the
\* favorite set or the cache publishes an object other than the one held.
C33_HeldSnapshotsNeverChange ==
    /\ [](/\ setObjects.held # 0 => setObjects.objects[setObjects.held] = setObjects.seen
          /\ mapObjects.held # 0 => mapObjects.objects[mapObjects.held] = mapObjects.seen
          /\ setObjects.objects[setObjects.published] = favoritesState.favoriteIds
          /\ mapObjects.objects[mapObjects.published] = movieState.cache)
    /\ [][/\ (favoritesState'.favoriteIds # favoritesState.favoriteIds /\ setObjects.held # 0)
              => (setObjects'.held # 0 /\ setObjects'.held # setObjects'.published)
          /\ (movieState'.cache # movieState.cache /\ mapObjects.held # 0)
              => (mapObjects'.held # 0 /\ mapObjects'.held # mapObjects'.published)]_vars

C33_Witness ==
    /\ setObjects.held # 0
    /\ setObjects.held # setObjects.published
    /\ setObjects.seen # <<>>
    /\ setObjects.seen # favoritesState.favoriteIds
    /\ favLast.op = "loadResolve"
    /\ mapObjects.held # 0
    /\ mapObjects.held # mapObjects.published
    /\ Len(mapObjects.seen) = 1
    /\ Len(movieState.cache) = 2
    /\ coordLast.op = "fetchSuccess"

\* C36: the success of a getMovies fetch leaves the entries of all other keys
\* as they were (none added, removed or changed), also when fetches for
\* several keys are in flight; the failure of a fetch leaves the whole cache
\* as it was.
C36_CompletionTouchesOnlyItsOwnKey ==
    [][/\ coordLast'.op = "fetchSuccess"
          => /\ Len(requests') = Len(requests) - 1
             /\ SelectSeq(movieState'.cache, LAMBDA e : e.key # coordLast'.cacheKey)
                   = SelectSeq(movieState.cache, LAMBDA e : e.key # coordLast'.cacheKey)
       /\ coordLast'.op = "fetchFailure"
          => /\ Len(requests') = Len(requests) - 1
             /\ movieState'.cache = movieState.cache]_vars

C36_Witness ==
    /\ coordLast.op = "fetchSuccess"
    /\ Len(movieState.cache) = 2
    /\ movieState.cache[1].key # coordLast.cacheKey
    /\ movieState.cache[1].lastUpdated > coordLast.calledAt
    /\ movieState.cache[2].key = coordLast.cacheKey
    /\ movieState.cache[2].lastUpdated > movieState.cache[1].lastUpdated

\* list is the top-rated slice of movieList: its limit best rated movies (all
\* of them when there are fewer), best first.
IsTopRatedSlice(list, movieList, limit) ==
    /\ Len(list) = (IF limit < Len(movieList) THEN limit ELSE Len(movieList))
    /\ Elements(list) \subseteq Elements(movieList)
    /\ Cardinality(Elements(list)) = Len(list)
    /\ \A i, j \in 1..Len(list) : i < j => list[i].vote_average >= list[j].vote_average
    /\ \A m \in Elements(movieList) \ Elements(list) :
          \A i \in 1..Len(list) : list[i].vote_average >= m.vote_average

\* list holds the movies of the top-rated slice, oldest release first.
IsChronologicalSlice(list, movieList, limit) ==
    /\ \E top \in SeqsUpTo(Elements(movieList), Len(list)) :
          /\ IsTopRatedSlice(top, movieList, limit)
          /\ Len(top) = Len(list)
          /\ Elements(top) = Elements(list)
    /\ \A i, j \in 1..Len(list) :
          i < j => DateGetTime(list[i].release_date) <= DateGetTime(list[j].release_date)

\* Kinds outside the three the type of getMovies names.
OtherKinds == {"popular", ""}

\* C34: the list a getMovies fetch brings is, for the kind 'chronological',
\* the movies of the top-rated slice of the call's limit in ascending order of
\* release date, and for 'top-rated' and 'all' the top-rated slice itself; any
\* other kind is routed to the top-rated slice too.
C34_KindRoutesTheFetch ==
    [][coordLast'.op = "fetchSuccess" =>
          \E i \in 1..Len(requests), movieList \in Catalogs :
              LET req == requests[i]
              IN  /\ req.cacheKey = coordLast'.cacheKey
                  /\ requests' = RemoveAt(requests, i)
                  /\ IF req.type = "chronological"
                     THEN IsChronologicalSlice(coordLast'.ret, movieList, req.limit)
                     ELSE IsTopRatedSlice(coordLast'.ret, movieList, req.limit)
                  /\ \A kind \in OtherKinds :
                        IsTopRatedSlice(getApiCall(kind, req.limit, movieList),
                                        movieList, req.limit)]_vars

C34_Witness ==
    /\ coordLast.op = "fetchSuccess"
    /\ coordLast.cacheKey = CacheKey("chronological", 2)
    /\ Len(coordLast.ret) = 2
    /\ coordLast.ret[1].vote_average < coordLast.ret[2].vote_average
    /\ DateGetTime(coordLast.ret[1].release_date) < DateGetTime(coordLast.ret[2].release_date)

\* The steps in which the Movie Source answers a fetch, and the calls.
FetchAnswers == {"fetchSuccess", "detailsSuccess", "searchSuccess"}

CoordinatorCalls == {"getMovies", "getMovieById", "searchMovies"}

\* C27 as stated: while the error is set, every coordinator operation that
\* completes successfully (a call answered at once, or a fetch the Movie
\* Source answers) clears it, and no other step does.
C27_NextSuccessfulOperationClearsError ==
    [][movieState.error # NULL
          => IF \/ coordLast'.op \in FetchAnswers
                \/ coordLast'.op \in CoordinatorCalls /\ coordLast'.emitted
             THEN movieState'.error = NULL
             ELSE movieState'.error # NULL]_vars

\* C27: while the error is set, a fetch that the Movie Source answers, for
\* whichever operation and query shape, clears it; every other step leaves it
\* set: a failed fetch (which sets its own message), a call that starts a
\* fetch, and also a call that is answered at once (from the cache, or for a
\* blank query) without a fetch.
C27_NextAnsweredFetchClearsError ==
    [][movieState.error # NULL
          => /\ coordLast'.op \in FetchAnswers => movieState'.error = NULL
             /\ coordLast'.op \notin FetchAnswers => movieState'.error # NULL
             /\ coordLast'.op \in CoordinatorCalls
                   => movieState'.error = movieState.error]_vars

C27_Witness ==
    /\ coordLast.op = "detailsSuccess"
    /\ coordLast.before.error = "Failed to fetch movies"
    /\ Len(coordLast.before.cache) = 1
    /\ movieState.error = NULL

\* The fetches in flight.
InFlight == Len(requests) + Len(lookups)

FavoritesEvaluations == {"getFavoriteMovies", "toggleFavorite", "loadResolve"}

\* C12: whenever getFavoriteMovies is evaluated while the favorite set is
\* empty (at the call, or when the set changes under a subscribed stream), the
\* stream emits the empty list, no call reaches the coordinator or the Movie
\* Source, and the coordinator state (loading included) stays as it was.
C12_EmptyFavoritesEmitEmptyWithoutCoordinator ==
    [][\A i \in 1..Len(streams') :
          (/\ facadeLast'.op \in FavoritesEvaluations
           /\ streams'[i].kind = "favorites"
           /\ i \in facadeLast'.delivered
           /\ favoritesState'.favoriteIds = <<>>)
          => /\ streams'[i].emitted = << <<>> >>
             /\ movieState' = movieState
             /\ calls' = calls
             /\ Len(requests') = Len(requests)
             /\ fetchHistory' = fetchHistory]_vars

C12_Witness ==
    /\ facadeLast.op = "toggleFavorite"
    /\ Len(streams) = 1
    /\ streams[1].kind = "favorites"
    /\ 1 \in facadeLast.delivered
    /\ favoritesState.favoriteIds = <<>>
    /\ streams[1].emitted = << <<>> >>
    /\ Len(movieState.cache) > 0

\* The enriched movies of an emitted collection: the elements of the list of
\* getHomeMovies, the members of the groups of getMoviesByDecades.
EnrichedIn(kind, collection) ==
    IF kind = "decades"
    THEN UNION {Elements(collection[decade]) : decade \in DOMAIN collection}
    ELSE Elements(collection)

\* C19: the collection a getHomeMovies or getMoviesByDecades stream emitted
\* last holds exactly the coordinator's movies, each unchanged but for
\* isFavorite, which is the membership of the stringified id in the favorite
\* set that is current (every change of the set re-emits in the same step, so
\* the last emission is always the one made against the current set).
C19_EnrichmentMatchesCurrentFavorites ==
    \A i \in 1..Len(streams) :
        LET stream == streams[i]
        IN  (stream.kind \in {"home", "decades"} /\ stream.emitted # <<>>)
            => /\ stream.movies # <<>>
               /\ LET movies == stream.movies[1]
                      enriched == EnrichedIn(stream.kind, stream.emitted[1])
                  IN  /\ \A e \in enriched :
                            /\ e.isFavorite
                                  = (ToString(e.id) \in Elements(favoritesState.favoriteIds))
                            /\ \E j \in 1..Len(movies) :
                                  /\ DOMAIN e = DOMAIN movies[j] \cup {"isFavorite"}
                                  /\ \A f \in DOMAIN movies[j] : e[f] = movies[j][f]
                      /\ \A j \in 1..Len(movies) : \E e \in enriched : e.id = movies[j].id
                      /\ stream.kind = "home"
                            => /\ Len(stream.emitted[1]) = Len(movies)
                               /\ \A j \in 1..Len(movies) :
                                     stream.emitted[1][j].id = movies[j].id

C19_Witness ==
    /\ facadeLast.op = "fetchSuccess"
    /\ Len(streams) = 1
    /\ streams[1].kind = "decades"
    /\ 1 \in facadeLast.delivered
    /\ toggledIds # {}
    /\ \E e \in EnrichedIn("decades", streams[1].emitted[1]) : e.isFavorite
    /\ \E e \in EnrichedIn("decades", streams[1].emitted[1]) : ~e.isFavorite

\* The steps in which the Favorites Store publishes a state.
FavoritesPublications == {"toggleFavorite", "loadResolve"}

\* C20 as stated: once a getHomeMovies stream has emitted, a later toggle or
\* other Favorites Store state change delivers nothing to it.
C20_HomeSnapshotTakenOnce ==
    [][\A i \in 1..Len(streams) :
          (/\ streams[i].kind = "home"
           /\ streams[i].emitted # <<>>
           /\ facadeLast'.op \in FavoritesPublications)
          => i \notin facadeLast'.delivered]_vars

\* C20: a getHomeMovies stream that has emitted a non-empty collection stays
\* subscribed to the favorite set: every later Favorites Store state change
\* (toggle, startup load) delivers to it the same movies tagged against the
\* set as it is after the change; a stream whose movie list is empty
\* receives nothing further.
C20_HomeStreamFollowsFavorites ==
    [][\A i \in 1..Len(streams) :
          (/\ streams[i].kind = "home"
           /\ streams[i].emitted # <<>>
           /\ facadeLast'.op \in FavoritesPublications)
          => /\ (i \in facadeLast'.delivered) = (streams[i].movies[1] # <<>>)
             /\ streams'[i].movies = streams[i].movies
             /\ Len(streams'[i].emitted[1]) = Len(streams[i].movies[1])
             /\ \A j \in 1..Len(streams[i].movies[1]) :
                   /\ streams'[i].emitted[1][j].id = streams[i].movies[1][j].id
                   /\ streams'[i].emitted[1][j].isFavorite
                         = (ToString(streams[i].movies[1][j].id)
                              \in Elements(favoritesState'.favoriteIds))]_vars

C20_Witness ==
    /\ facadeLast.op = "toggleFavorite"
    /\ Len(streams) = 1
    /\ streams[1].kind = "home"
    /\ 1 \in facadeLast.delivered
    /\ \E j \in 1..Len(streams[1].emitted[1]) :
          /\ streams[1].emitted[1][j].isFavorite
          /\ streams[1].emitted[1][j].id \in toggledIds

\* C21: whenever a getFavoriteMovies stream receives a list while the favorite
\* set is not empty, the list is the coordinator's getMovies('top-rated', 1000)
\* movies whose stringified id is in the favorite set as it is in that step,
\* in the coordinator's order, each tagged isFavorite = true and otherwise
\* unchanged; a movie outside the set is never in the list.
C21_FavoriteMoviesAreTheFavoritesOfTheResult ==
    [][\A i \in 1..Len(streams') :
          (/\ streams'[i].kind = "favorites"
           /\ i \in facadeLast'.delivered
           /\ favoritesState'.favoriteIds # <<>>)
          => /\ streams'[i].movies # <<>>
             /\ LET movies == streams'[i].movies[1]
                    list == streams'[i].emitted[1]
                    current == Elements(favoritesState'.favoriteIds)
                    chosen == SelectSeq(movies, LAMBDA m : ToString(m.id) \in current)
                IN  /\ Len(list) = Len(chosen)
                    /\ \A k \in 1..Len(list) :
                          /\ list[k].isFavorite
                          /\ ToString(list[k].id) \in current
                          /\ DOMAIN list[k] = DOMAIN chosen[k] \cup {"isFavorite"}
                          /\ \A f \in DOMAIN chosen[k] : list[k][f] = chosen[k][f]
                    /\ facadeLast'.op = "fetchSuccess"
                          => LET entry == getCachedMovies(movieState', CacheKey("top-rated", 1000))
                             IN  entry # <<>> /\ entry[1].movies = movies]_vars

C21_Witness ==
    /\ facadeLast.op = "fetchSuccess"
    /\ Len(streams) = 1
    /\ streams[1].kind = "favorites"
    /\ 1 \in facadeLast.delivered
    /\ toggledIds # {}
    /\ Len(streams[1].movies[1]) = 3
    /\ Len(streams[1].emitted[1]) = 1
    /\ Len(favoritesState.favoriteIds) = 1

\* The ids of a list of movies, in order.
IdsOf(list) == [k \in 1..Len(list) |-> list[k].id]

\* C22: the groups a getMoviesByDecades stream emitted partition the movies
\* it was given: every movie is at exactly one place of exactly one group, the
\* key of a group is the first three characters of its members' release date
\* followed by '0s', no group is empty, and each group ascends by release
\* date; the three movies of 1994-09-10, 1999-01-01 and 2001-03-05 give
\* '1990s' with the first two in that order and '2000s' with the third.
C22_DecadesPartitionAndAscend ==
    \A i \in 1..Len(streams) :
        (streams[i].kind = "decades" /\ streams[i].emitted # <<>>)
        => LET movies == streams[i].movies[1]
               groups == streams[i].emitted[1]
               places == {<<decade, k>> : decade \in DOMAIN groups, k \in 1..Len(movies)}
           IN  /\ \A j \in 1..Len(movies) :
                     Cardinality({p \in places :
                                     /\ p[2] <= Len(groups[p[1]])
                                     /\ groups[p[1]][p[2]].id = movies[j].id}) = 1
               /\ \A decade \in DOMAIN groups :
                     /\ Len(groups[decade]) \in 1..Len(movies)
                     /\ Len(decade) = 5 /\ decade[4] = "0" /\ decade[5] = "s"
                     /\ \A k \in 1..Len(groups[decade]) :
                           /\ \E j \in 1..Len(movies) : movies[j].id = groups[decade][k].id
                           /\ Len(Chars(groups[decade][k].release_date)) >= 3
                           /\ \A c \in 1..3 :
                                 Chars(groups[decade][k].release_date)[c] = decade[c]
                     /\ \A k, l \in 1..Len(groups[decade]) :
                           k < l => DateGetTime(groups[decade][k].release_date)
                                      <= DateGetTime(groups[decade][l].release_date)
               /\ Len(movies) = 3
                     => /\ DOMAIN groups = {<<"1", "9", "9", "0", "s">>, <<"2", "0", "0", "0", "s">>}
                        /\ IdsOf(groups[<<"1", "9", "9", "0", "s">>]) = <<1, 2>>
                        /\ IdsOf(groups[<<"2", "0", "0", "0", "s">>]) = <<3>>

C22_Witness ==
    /\ Len(streams) = 1
    /\ streams[1].kind = "decades"
    /\ streams[1].emitted # <<>>
    /\ IdsOf(streams[1].movies[1]) = <<2, 1, 3>>
    /\ IdsOf(streams[1].emitted[1][<<"1", "9", "9", "0", "s">>]) = <<1, 2>>

\* The steps in which the coordinator's getMovieById emits to the facade.
DetailAnswers == {"getMovieById", "detailsSuccess", "detailsFailure"}

\* C23: what a facade getMovieById stream emitted last is absent when the
\* coordinator's lookup was absent (not found, or failed), whether or not the
\* id is a favorite, and otherwise the coordinator's movie, unchanged but for
\* isFavorite, which is the membership of the stringified id in the current
\* favorite set (every change of the Favorites Store state re-emits in the
\* same step); the answer the stream holds is the one the coordinator gave.
C23_DetailIsAbsentOrTaggedByMembership ==
    \A i \in 1..Len(streams) :
        (streams[i].kind = "detail" /\ streams[i].emitted # <<>>)
        => /\ streams[i].movies # <<>>
           /\ LET found == streams[i].movies[1]
                  out == streams[i].emitted[1]
                  id == streams[i].ids[1]
              IN  /\ found = <<>> => out = <<>>
                  /\ found # <<>>
                        => /\ Len(out) = 1
                           /\ found[1].id = id
                           /\ out[1].isFavorite
                                 = (ToString(id) \in Elements(favoritesState.favoriteIds))
                           /\ DOMAIN out[1] = DOMAIN found[1] \cup {"isFavorite"}
                           /\ \A f \in DOMAIN found[1] : out[1][f] = found[1][f]
                  /\ (coordLast.op \in DetailAnswers /\ i \in facadeLast.delivered)
                        => found = coordLast.ret

C23_Witness ==
    /\ facadeLast.op = "toggleFavorite"
    /\ Len(streams) = 1
    /\ streams[1].kind = "detail"
    /\ streams[1].ids = <<2>>
    /\ 1 \in facadeLast.delivered
    /\ streams[1].emitted = << <<>> >>
    /\ favoritesState.favoriteIds = <<"2">>

\* The steps of the Favorites Store: a toggle, the resolution of the load.
FavoritesSteps == {"toggleFavorite", "loadResolve"}

\* No movie of any Cache Entry has an isFavorite field.
NoFlagInCache ==
    \A e \in 1..Len(movieState.cache) :
        \A m \in 1..Len(movieState.cache[e].movies) :
            "isFavorite" \notin DOMAIN movieState.cache[e].movies[m]

InitFav == FavInit /\ CoordInit /\ FacadeInit /\ PipeInit /\ CardsInit

SpecFav == InitFav /\ [][FavNext]_vars

\* The same with the promise of the startup read resolving: a resolved promise's
\* reaction is a microtask the event loop always runs.
SpecFavLive == InitFav /\ [][FavNext]_vars /\ WF_vars(LoadResolve)

\* The coordinator alone: the Favorites Store stays as constructed over an
\* empty storage.
InitCoord == FavInit /\ localStorage = <<>> /\ ~ioFailed /\ CoordInit /\ FacadeInit /\ PipeInit /\ CardsInit

SpecCoord == InitCoord /\ [][CoordNext]_vars

\* The coordinator with a Movie Source that eventually answers.
SpecLookupLive == InitCoord /\ [][ResolveNext]_vars /\ WF_vars(SourceAnswers)

\* The facade over both services, with components subscribed to its streams;
\* the application starts with no stored favorites or with movie 2 stored.
FacadeStorages ==
    {<<>>, [k \in {STORAGE_KEY} |-> JSONStringify(<<NumberToString(2)>>)]}

InitFacade == FavInit /\ localStorage \in FacadeStorages /\ CoordInit /\ FacadeInit /\ PipeInit /\ CardsInit

SpecFacade == InitFacade /\ [][FacadeNext]_vars

\* A page with a home list and one card on it.
CardNext ==
    \/ GetHomeMovies
    \/ \E i \in 1..Len(requests), movieList \in Catalogs : FacadeFetchSuccess(i, movieList)
    \/ FacadeLoadResolve
    \/ \E movie \in CardInputs : CardNgOnInit(movie)
    \/ CardDestroy
    \/ \E setItemThrows \in BOOLEAN : CardToggleFavorite(setItemThrows)

SpecCard == InitFacade /\ [][CardNext]_vars

\* The facade's getMovieById over both services.
SpecDetail == InitFacade /\ [][DetailNext]_vars

\* The pipes the templates apply, next to services at rest.
SpecPipe == InitCoord /\ [][PipeNext]_vars

\* Every operation of the coordinator, clearCache and the passing of time.
CacheNext == CoordNext \/ LookupNext

SpecCache == InitCoord /\ [][CacheNext]_vars

\* The Favorites Store with a reader of favoriteIds$ that keeps what it is given.
FavObjectsNext == FavNext \/ HoldFavoriteIds

SpecFavObjects == InitFav /\ [][FavObjectsNext]_vars

\* The two stores with a reader of each that keeps what it is given; the
\* writes of the toggles succeed.
ObjectsNext ==
    \/ \E movieId \in MovieIds : ToggleFavorite(movieId, FALSE)
    \/ LoadResolve
    \/ HoldFavoriteIds
    \/ \E shape \in LookupShapes : GetMovies(shape[1], shape[2])
    \/ \E i \in 1..Len(requests), movieList \in Catalogs : FetchSuccess(i, movieList)
    \/ ClearCache
    \/ HoldCache

SpecObjects == InitFacade /\ [][ObjectsNext]_vars

\* Both stores with every operation of each: the Favorites Store behind the
\* facade with a getFavoriteMovies subscriber, toggles of movie 1 and the
\* startup load; the coordinator with its fetches, clearCache, one lookup and
\* one search.
StoresNext ==
    \/ GetFavoriteMovies
    \/ \E i \in 1..Len(requests), movieList \in Catalogs : FacadeFetchSuccess(i, movieList)
    \/ \E i \in 1..Len(requests) : FacadeFetchFailure(i)
    \/ \E setItemThrows \in BOOLEAN : ToggleMovieFavorite(1, setItemThrows)
    \/ FacadeLoadResolve
    \/ ClearCache
    \/ GetMovieById(2)
    \/ \E i \in 1..Len(lookups), movieList \in Catalogs : DetailsSuccess(i, movieList)
    \/ \E i \in 1..Len(lookups) : DetailsFailure(i)
    \/ SearchMovies("a", 3)
    \/ \E i \in 1..Len(lookups), movieList \in Catalogs : SearchSuccess(i, movieList)
    \/ \E i \in 1..Len(lookups) : SearchFailure(i)

SpecStores == InitFacade /\ [][StoresNext]_vars

\* The coordinator with getMovieById and searchMovies as well.
SpecLookup == InitCoord /\ [][LookupNext]_vars

====
